---- MODULE Spec2Model ----
(***************************************************************************)
(* Model of the form-filling pipeline of src/auto_fill.py.                 *)
(*                                                                         *)
(* The controller fill_form_from_resume is a state machine whose program   *)
(* counter pc walks through the function; the page, the browser, the LLM   *)
(* and the file system are the environment: every call into them draws its *)
(* outcome from a small set.  Variables after "history" record what the    *)
(* run did (calls, clicks, reports); the code does not hold them.          *)
(***************************************************************************)
EXTENDS Integers, Sequences, FiniteSets, TLC

\* ------------------------------------------------------------------ bounds

\* Largest max_submit_retries argument tried.
MaxRetries == 2
\* Longest field list an LLM response carries.
MaxFields == 2
\* Most required-and-empty fields one verify_fields call reports.
MaxEmpty == 1
\* Most elements the error selectors of check_errors match on one page.
MaxErrElems == 1
\* Longest option list of a dropdown.
MaxOptions == 3
\* Largest max_retries argument of fill_any_dropdown tried.
MaxDropRetries == 2
\* Longest LLM response text, in lexical pieces.
MaxText == 4
\* Most input, select and textarea elements of a page.
MaxControls == 2
\* Most elements the error selectors match in a check_errors call on its own.
MaxScanned == 2
\* Most elements a generic submit selector matches.
MaxButtons == 2

\* ------------------------------------------------------ program constants

\* range(3) of smart_load_form; the counts of visible fields at which it
\* returns at once and at which it leaves the loop.
ScrollBudget == 3
EnoughAtStart == 5
EnoughInLoop == 10

\* check_errors keeps a text only when len(text) < 200.
ErrorTextLimit == 200

\* --------------------------------------------------------------- variables

VARIABLES
    pc,                 \* position in fill_form_from_resume
    actually_submit,    \* argument
    send_email,         \* argument: email_notifier is created iff TRUE
    max_submit_retries, \* argument
    resume_exists,      \* resume_path is set and os.path.exists(resume_path)
    browser,            \* "none" | "open" | "closed"
    fields,             \* analysis.get("fields", [])
    submit_button,      \* analysis.get("submit_button", {}) : a SubmitKinds value
    idx,                \* index of the fill loop (1-based; next field to fill)
    fields_filled,
    total_fields,
    final_errors,
    submission_success,
    retry,              \* loop variable of the submission loop
    ret,                \* "none" | "true" | "false" | "raised" (uncaught exception)
    \* ---- history
    reports,            \* sequence of notifier calls
    delivered,          \* what send_email returned in each of these calls
    reportFresh,        \* no fill, gap-fill or submit click came after the
                        \* verify_fields call whose report "verification" holds
    staleGapFill,       \* a fill_empty_fields call got a report that was not fresh
    fillCalls,          \* the list positions fill_field was called for, in call order
    fillTrue,           \* number of fill_field calls that returned True
    fillFailures,       \* number of fill_field calls in which an error occurred
    attempts,           \* number of attempt_submit calls
    clicks,             \* number of submit clicks performed
    verifies,           \* number of verify_fields calls
    gapFills,           \* number of fill_empty_fields calls
    quits,              \* number of driver.quit() calls
    opsAfterQuit,       \* a browser operation was issued on a closed browser
    observed,           \* set of the error strings check_errors returned so far
    checks,             \* number of check_errors calls
    rejected,           \* number of check_errors calls that returned a non-empty list
    extractions,        \* number of extract_form_structure calls
    extracted,          \* "none" before the extraction; then whether the page held
                        \* visible fields ("fields") or no form and no field ("nothing")
    lastSeen,           \* the latest check_errors result
    lastSubmit,         \* result of the latest attempt_submit call, or "none"
    lastResponse,       \* the LLM response analyze_form received (or NoResponse)
    exitPath,           \* which way the run left the function
    parsed              \* what parse_resume came to: "none" before the call,
                        \* "data", "empty" or "raised"

\* One call of the option matching of a dropdown (native branch of
\* fill_any_dropdown, select_from_dropdown) on one value and one option list.
VARIABLES
    selValue,           \* the "value" argument
    selTexts,           \* the text of each option element, in document order
    selRaises,          \* the browser call that selects or clicks raises
    nativeResult,       \* what the native branch returned and selected, or NotApplied
    customResult        \* what select_from_dropdown returned and clicked, or NotApplied

\* One call of fill_any_dropdown on an element that is no <select>.
VARIABLES
    ddPc,               \* the strategy about to be tried, or "returned"
    max_retries,        \* argument
    attempt,            \* loop variable of "for attempt in range(max_retries)"
    ddValue,            \* the "value" argument
    tried,              \* the opener steps performed so far, in order
    opened,             \* a step found a visible option / listitem element
    selectCalls,        \* number of select_from_dropdown calls
    selectRet,          \* what the latest select_from_dropdown call returned
    ddRet               \* return value: "none" | "true" | "false"

\* Calls of fill_field and fill_empty_fields for one mapped field of a page.
VARIABLES
    action,             \* field_info["action"]
    field_type,         \* field_info["field_type"]
    fvalue,             \* field_info["value"]
    label,              \* field_info["label"]
    resume_path,        \* argument (NoPath: None)
    cover_letter_path,  \* argument (NoPath: None)
    resumeOnDisk,       \* os.path.exists(abspath(resume_path))
    coverOnDisk,        \* os.path.exists(abspath(cover_letter_path))
    element,            \* the element the lookups resolve the field to, or NoElement
    checked,            \* is_selected() of the element (a checkbox)
    lastCall,           \* "none" | "fill_field" | "fill_empty_fields"
    uploadValue,        \* "value" after the upload resolution of the latest fill_field
    sent,               \* the values the latest call sent to the element (send_keys)
    fret,               \* what the latest fill_field call returned
    ran,                \* the handlers the latest fill_field call ran
    unchecked           \* some call left a checkbox unchecked that was checked before

\* One call of analyze_form, past the chat-completion call.
VARIABLES
    llmText,            \* response.choices[0].message.content.strip(), in pieces
    resume_data,        \* argument, a ResumeDatas value
    analyzed            \* what the call did, or NotAnalyzed

\* One page under extract_form_structure and verify_fields.
VARIABLES
    controls,           \* the input, select and textarea elements of the page
    form_data,          \* what the extraction script returned, or NotExtracted
    form_text,          \* the lines of the text extract_form_structure returned
    verification        \* what verify_fields returned, or NotVerified

\* One submit attempt under detect_success and the classification.
VARIABLES
    page_text,          \* the text of the body element
    current_url,        \* driver.current_url
    readRaises,         \* "none" | "body" | "url": which read raises
    errorsShown,        \* check_errors would find a visible error text
    classified          \* how the attempt was classified, or NotClassified

\* One call of check_errors.
VARIABLES
    errorPage,          \* what the three selectors match, a ScannedPages value
    scan                \* the list the call returned, or NotScanned

\* One call of attempt_submit.
VARIABLES
    submit_info,        \* argument, "empty" | "selector" | "nondict"
    submitPage,         \* what the submit selectors meet, a SubmitSearches value
    submitted           \* what the call did, or NotSubmitted

\* One call of generate_fallback.
VARIABLES
    fbLabel,            \* argument label, a text
    fbType,             \* argument field_type
    fbValue             \* the text the call returned, or NoFallback

\* One call of smart_load_form.
VARIABLES
    loadPc,             \* "start" | "loop" | "restore" | "done" | "raised"
    scrollPos,          \* "top" | "bottom" | "elsewhere": the scroll position
    startPos,           \* the scroll position at the call
    scrolls,            \* the page-bottom scrolls performed
    seen,               \* len(visible) of each scan, in order
    loadRet             \* "none" | "true" | "false"

vars == <<pc, actually_submit, send_email, max_submit_retries, resume_exists,
          browser, fields, submit_button, idx, fields_filled, total_fields,
          final_errors, submission_success, retry, ret,
          reports, delivered, reportFresh, staleGapFill,
             fillCalls, fillTrue, fillFailures, attempts, clicks, verifies, gapFills, quits,
          opsAfterQuit, observed, checks, rejected, extractions, extracted,
          lastSeen, lastSubmit, lastResponse,
          exitPath, parsed,
          selValue, selTexts, selRaises, nativeResult, customResult,
          ddPc, max_retries, attempt, ddValue, tried, opened, selectCalls,
          selectRet, ddRet,
          action, field_type, fvalue, label, resume_path, cover_letter_path,
          resumeOnDisk, coverOnDisk, element, checked, lastCall, uploadValue,
          sent, fret, ran, unchecked,
          llmText, resume_data, analyzed,
          controls, form_data, form_text, verification,
          page_text, current_url, readRaises, errorsShown, classified,
          errorPage, scan,
          submit_info, submitPage, submitted,
          fbLabel, fbType, fbValue,
          loadPc, scrollPos, startPos, scrolls, seen, loadRet>>

ctlVars == <<pc, actually_submit, send_email, max_submit_retries, resume_exists,
             browser, fields, submit_button, idx, fields_filled, total_fields,
             final_errors, submission_success, retry, ret,
             reports, delivered, reportFresh, staleGapFill,
             fillCalls, fillTrue, fillFailures, attempts, clicks, verifies,
             gapFills, quits, opsAfterQuit, observed, checks, rejected, extractions,
             extracted, lastSeen, lastSubmit, lastResponse, exitPath, parsed>>

selVars == <<selValue, selTexts, selRaises, nativeResult, customResult>>

ddVars == <<ddPc, max_retries, attempt, ddValue, tried, opened, selectCalls,
            selectRet, ddRet>>

\* The field, the files and the page element: what the calls do not change.
fieldVars == <<action, field_type, fvalue, label, resume_path, cover_letter_path,
               resumeOnDisk, coverOnDisk, element>>

fillVars == <<fieldVars, checked, lastCall, uploadValue, sent, fret, ran, unchecked>>

respVars == <<llmText, resume_data, analyzed>>

domVars == <<controls, form_data, form_text, verification>>

detVars == <<page_text, current_url, readRaises, errorsShown, classified>>

errVars == <<errorPage, scan>>

loadVars == <<loadPc, scrollPos, startPos, scrolls, seen, loadRet>>

fbVars == <<fbLabel, fbType, fbValue>>

subVars == <<submit_info, submitPage, submitted>>

\* ----------------------------------------------------------------- helpers

RECURSIVE SeqsUpTo(_, _)
\* All sequences over S of length at most n.
SeqsUpTo(S, n) ==
    IF n = 0 THEN {<<>>}
    ELSE LET shorter == SeqsUpTo(S, n - 1)
         IN shorter \cup {Append(s, x) : s \in {t \in shorter : Len(t) = n - 1}, x \in S}

Range(s) == {s[i] : i \in DOMAIN s}

\* Python's s[:n].
Prefix(s, n) == IF Len(s) <= n THEN s ELSE SubSeq(s, 1, n)

\* ------------------------------------------------- EnhancedLLMFormAnalyzer

\* The text the LLM answers with, by what analyze_form can tell apart:
\*   shape  "apierror" the chat-completion call raises
\*          "nomatch"  the text holds no "{...}" for re.search
\*          "badjson"  json.loads raises on the matched text
\*          "object"   json.loads returns a dict
\*   fkind  what result.get("fields", []) is:
\*          "absent"     the key is missing
\*          "nonlist"    a value that is not iterable, or a non-empty str/dict
\*          "emptyother" an empty str or dict (iterable, falsy, no element)
\*          "list"       a JSON array, its elements in flist
\*   flist  per element "dict" (a JSON object) or "nondict" (anything else)
\*   submit what the "submit_button" key holds:
\*          "absent", "empty" (falsy value or a dict without selector),
\*          "selector" (a dict with a selector), "nondict" (truthy, no dict)
FieldElems == {"dict", "nondict"}
FieldKinds == {"absent", "nonlist", "emptyother", "list"}
SubmitKinds == {"absent", "empty", "selector", "nondict"}

NoObject(shape) == [shape |-> shape, fkind |-> "absent", flist |-> <<>>, submit |-> "absent"]

LLMResponses ==
    {NoObject(s) : s \in {"apierror", "nomatch", "badjson"}}
    \cup {[shape |-> "object", fkind |-> k, flist |-> <<>>, submit |-> b] :
            k \in FieldKinds \ {"list"}, b \in SubmitKinds}
    \cup {[shape |-> "object", fkind |-> "list", flist |-> l, submit |-> b] :
            l \in SeqsUpTo(FieldElems, MaxFields), b \in SubmitKinds}

NoResponse == NoObject("none")

\* {"fields": [], "submit_button": {}}
EmptyAnalysis == [fkind |-> "list", flist |-> <<>>, submit |-> "empty"]

\* The loop "for field in result.get('fields', [])" with field.get(...) raises
\* on a value that cannot be iterated and on an element that is no dict.
FieldLoopRaises(resp) ==
    \/ resp.fkind = "nonlist"
    \/ resp.fkind = "list" /\ \E i \in DOMAIN resp.flist : resp.flist[i] = "nondict"

AnalyzeFormMutant(resp) == [fkind |-> resp.fkind, flist |-> resp.flist, submit |-> resp.submit]

\* analyze_form: the dict it returns.  Every exception is caught.
AnalyzeForm(resp) ==
    IF resp.shape # "object" THEN EmptyAnalysis
    ELSE IF FieldLoopRaises(resp) THEN EmptyAnalysis
    ELSE [fkind |-> resp.fkind, flist |-> resp.flist, submit |-> resp.submit]

\* analysis.get("fields", [])
GetFields(a) == IF a.fkind = "list" THEN a.flist ELSE <<>>

\* analysis.get("submit_button", {})
GetSubmitButton(a) == IF a.submit = "absent" THEN "empty" ELSE a.submit

\* ------------------------------------------------------- option matching

\* A text is the sequence of its characters.
UpperCase == <<"A","B","C","D","E","F","G","H","I","J","K","L","M",
               "N","O","P","Q","R","S","T","U","V","W","X","Y","Z">>
LowerCase == <<"a","b","c","d","e","f","g","h","i","j","k","l","m",
               "n","o","p","q","r","s","t","u","v","w","x","y","z">>

LowerChar(c) ==
    IF \E i \in DOMAIN UpperCase : UpperCase[i] = c
    THEN LowerCase[CHOOSE i \in DOMAIN UpperCase : UpperCase[i] = c]
    ELSE c

\* str.lower()
Lower(t) == [i \in DOMAIN t |-> LowerChar(t[i])]

RECURSIVE LStrip(_)
LStrip(t) == IF t # <<>> /\ Head(t) = " " THEN LStrip(Tail(t)) ELSE t

RECURSIVE RStrip(_)
RStrip(t) ==
    IF t # <<>> /\ t[Len(t)] = " " THEN RStrip(SubSeq(t, 1, Len(t) - 1)) ELSE t

\* str.strip()
Strip(t) == RStrip(LStrip(t))

\* "a in b" of two strings.
Contains(a, b) ==
    \E i \in 0..(Len(b) - Len(a)) : SubSeq(b, i + 1, i + Len(a)) = a

\* ["select...", "select", "choose", "--", ""]
PlaceholderTexts ==
    { <<"s","e","l","e","c","t",".",".",".">>, <<"s","e","l","e","c","t">>,
      <<"c","h","o","o","s","e">>, <<"-","-">>, <<>> }

\* The option texts tried.
OptionTexts ==
    { <<>>, <<"-","-">>, <<"S","e","l","e","c","t",".",".",".">>,
      <<"U","n","i","t","e","d"," ","S","t","a","t","e","s">>,
      <<"C","a","n","a","d","a">>, <<" ","a"," ">>, <<"A","b">> }

\* A value argument: a string, or None (a JSON null of the LLM response).
StrValue(t) == [none |-> FALSE, text |-> t]
NoneValue == [none |-> TRUE, text |-> <<>>]

Values ==
    {NoneValue} \cup
    {StrValue(t) : t \in { <<>>, <<"a">>, <<"a","b">>, <<"u","s","a">>,
                           <<"s","e","l","e","c","t",".",".",".">> }}

\* "not value"
Falsy(v) == v.none \/ v.text = <<>>

\* The least element of a non-empty set of positions: the first hit of a loop.
First(S) == CHOOSE i \in S : \A j \in S : i <= j

\* What a matching call returns (ret) and the position (1-based) of the
\* option it selected or clicked in the option list; 0: none.
Chose(i) == [applied |-> TRUE, ret |-> TRUE, chosen |-> i]
ChoseNothing == [applied |-> TRUE, ret |-> FALSE, chosen |-> 0]
NotApplied == [applied |-> FALSE, ret |-> FALSE, chosen |-> 0]

\* "o and o.lower() not in [...]"
ValidTextMutant(t) == TRUE

ValidText(t) == t # <<>> /\ Lower(t) \notin PlaceholderTexts

\* The partial match of the native branch: "value.lower() in opt.lower()".
NativePartialMutant(v, o) == Contains(Lower(v), Lower(o)) \/ Contains(Lower(o), Lower(v))

NativePartial(v, o) == Contains(Lower(v), Lower(o))

\* The partial match of select_from_dropdown:
\* "value.lower() in t.lower() or t.lower() in value.lower()".
CustomPartial(v, t) == Contains(Lower(v), Lower(t)) \/ Contains(Lower(t), Lower(v))

\* The native branch of fill_any_dropdown on a <select> whose options carry
\* the texts; raises: Select(...), the reading of the options or the selecting
\* call raises, which "except Exception" turns into False.
NativeSelect(value, texts, raises) ==
    LET options == [i \in DOMAIN texts |-> Strip(texts[i])]
        valid == {i \in DOMAIN options : ValidText(options[i])}
        exact == {i \in DOMAIN options : Lower(value.text) = Lower(options[i])}
        partial == {i \in DOMAIN options : NativePartial(value.text, options[i])}
    IN  IF raises THEN ChoseNothing
        ELSE IF Falsy(value) /\ valid # {} THEN Chose(First(valid))
        ELSE IF Falsy(value) /\ Len(options) > 1 THEN Chose(2)
        ELSE IF value.none THEN ChoseNothing
        ELSE IF exact # {} THEN Chose(First(exact))
        ELSE IF partial # {} THEN Chose(First(partial))
        ELSE IF valid # {} THEN Chose(First(valid))
        ELSE ChoseNothing

\* select_from_dropdown on the visible option elements carrying the texts (an
\* element whose text cannot be read is skipped like one without text);
\* raises: the click raises, which "except Exception" turns into False.
SelectFromDropdown(value, texts, raises) ==
    LET stripped == [i \in DOMAIN texts |-> Strip(texts[i])]
        options_data == {i \in DOMAIN texts : stripped[i] # <<>>}
        valid == {i \in options_data : Lower(stripped[i]) \notin PlaceholderTexts}
        exact == {i \in options_data : Lower(value.text) = Lower(stripped[i])}
        partial == {i \in options_data : CustomPartial(value.text, stripped[i])}
    IN  IF options_data = {} THEN ChoseNothing
        ELSE IF raises THEN ChoseNothing
        ELSE IF Falsy(value) /\ valid # {} THEN Chose(First(valid))
        ELSE IF value.none THEN ChoseNothing
        ELSE IF exact # {} THEN Chose(First(exact))
        ELSE IF partial # {} THEN Chose(First(partial))
        ELSE IF valid # {} THEN Chose(First(valid))
        ELSE ChoseNothing

\* ------------------------------------- fill_any_dropdown, custom dropdown

\* The opener steps of one round, in code order.  "space" and "enter" are the
\* two halves of the keyboard strategy.
OpenerSteps == <<"direct", "parent", "arrow", "space", "enter", "js">>

\* What a step meets:
\*   "raised" a browser call of the step raises ("except: pass")
\*   "closed" no visible option / listitem element after the step (for the
\*            arrow step also: no displayed arrow, or none of them opens)
\*   "open"   at least one visible option / listitem element
StepOutcomes == {"raised", "closed", "open"}

\* "for attempt in range(max_retries)": another round is due.
RoundDueMutant(a, m) == a <= m

RoundDue(a, m) == a < m

\* The step after a step that revealed nothing: a raise inside the keyboard
\* strategy leaves its try block, so ENTER is not sent after a failed SPACE.
StepAfter(step, outcome) ==
    CASE step = "direct" -> "parent"
      [] step = "parent" -> "arrow"
      [] step = "arrow" -> "space"
      [] step = "space" -> IF outcome = "raised" THEN "js" ELSE "enter"
      [] step = "enter" -> "js"
      [] step = "js" -> "direct"

\* Where a step that revealed options leads: "return select_from_dropdown(...)".
RevealedNextMutant(next) == next

RevealedNext(next) == "returned"

\* ------------------------------------------------------------ fill_field

\* What happens inside one fill_field call:
\*   "filled"       a branch of the dispatch completed and returned True
\*   "notfound"     the selector and the label heuristics found no element
\*   "nodropdown"   fill_any_dropdown / select_from_dropdown returned False
\*   "filemissing"  the upload path does not exist
\*   "exception"    a browser call raised inside the try block
FillOutcomes == {"filled", "notfound", "nodropdown", "filemissing", "exception"}

FillFieldMutant(outcome) == outcome # "exception"

\* fill_field's return value: the whole body is inside try/except Exception,
\* which returns False; nothing is raised to the caller.
FillField(outcome) == outcome = "filled"

\* ----------------------------------------- fill_field on one mapped field

\* The value of a field: the text the LLM gave (abs FALSE) or the absolute
\* path os.path.abspath made of a path argument (abs TRUE).
Raw(text) == [abs |-> FALSE, text |-> text]
Abspath(path) == [abs |-> TRUE, text |-> path]

\* None as a path argument.
NoPath == "None"

Actions == {"type", "select", "upload"}
FieldTypes == {"file", "checkbox"}
FieldValues == {"RESUME_FILE", "COVER_LETTER_FILE", "USE_MAPPER", ""}
Labels ==
    { <<"R","e","s","u","m","e">>, <<"C","o","v","e","r"," ","L","e","t","t","e","r">>,
      <<"C","V">>, <<"R","e","s","u","m","e"," ","o","r"," ","c","o","v","e","r">> }

\* The page element a field resolves to: its tag, its type attribute, and
\* what makes it look like a dropdown:
\*   "class_dropdown" the class attribute contains "dropdown"
\*   "other"          class contains "select", role combobox, readonly, or
\*                    aria-haspopup
\*   "none"           nothing of the kind
NoElement == [tag |-> "none", type |-> "none", hint |-> "none"]

Elements ==
    { NoElement,
      [tag |-> "input", type |-> "file", hint |-> "none"],
      [tag |-> "input", type |-> "text", hint |-> "none"],
      [tag |-> "input", type |-> "checkbox", hint |-> "none"],
      [tag |-> "input", type |-> "checkbox", hint |-> "class_dropdown"],
      [tag |-> "input", type |-> "checkbox", hint |-> "other"],
      [tag |-> "input", type |-> "radio", hint |-> "none"],
      [tag |-> "select", type |-> "select-one", hint |-> "none"],
      [tag |-> "textarea", type |-> "textarea", hint |-> "none"],
      [tag |-> "div", type |-> "", hint |-> "none"],
      [tag |-> "div", type |-> "", hint |-> "other"] }

\* "word in label.lower()"
LabelHas(lbl, word) == Contains(word, Lower(lbl))

LabelNamesResume(lbl) == LabelHas(lbl, <<"r","e","s","u","m","e">>)

LabelNamesCover(lbl) ==
    \/ LabelHas(lbl, <<"c","o","v","e","r">>)
    \/ LabelHas(lbl, <<"l","e","t","t","e","r">>)

IsUploadFieldMutant(act, ftype) == act = "upload"

\* "if action == 'upload' or field_type == 'file'"
IsUploadField(act, ftype) == act = "upload" \/ ftype = "file"

\* os.path.abspath(path); None raises TypeError.
Resolved(path) ==
    IF path = NoPath THEN [raised |-> TRUE, value |-> Raw("")]
    ELSE [raised |-> FALSE, value |-> Abspath(path)]

ResolveUploadMutant(act, ftype, value, lbl, resume, cover) ==
    IF ~IsUploadField(act, ftype) THEN [raised |-> FALSE, value |-> Raw(value)]
    ELSE IF cover # NoPath /\ LabelNamesCover(lbl) THEN Resolved(cover)
    ELSE Resolved(resume)

\* Lines 812-825: the value of an upload field becomes an absolute path.
ResolveUpload(act, ftype, value, lbl, resume, cover) ==
    IF ~IsUploadField(act, ftype) THEN [raised |-> FALSE, value |-> Raw(value)]
    ELSE IF value = "RESUME_FILE" \/ LabelNamesResume(lbl) THEN Resolved(resume)
    ELSE IF value = "COVER_LETTER_FILE" /\ cover # NoPath THEN Resolved(cover)
    ELSE IF cover # NoPath /\ LabelNamesCover(lbl) THEN Resolved(cover)
    ELSE Resolved(resume)

\* "not value"
EmptyValue(v) == ~v.abs /\ v.text = ""

UploadRefusedMutant(v, exists) == EmptyValue(v)

\* "if not value or not os.path.exists(value)": nothing is uploaded.
UploadRefused(v, exists) == EmptyValue(v) \/ ~exists

\* The upload branch is taken: "if elem_type == 'file' or action == 'upload'".
TakesUploadBranch(el, act) == el.type = "file" \/ act = "upload"

\* "is_dropdown" of fill_field.
IsDropdown(el, act) == el.tag = "select" \/ el.hint # "none" \/ act = "select"

\* The dropdown test of fill_empty_fields.
IsDropdownForGapFill(el) == el.tag = "select" \/ el.hint = "class_dropdown"

\* The handlers of fill_field in the order of their "if" statements.
HandlerOrder == <<"upload", "dropdown", "checkbox", "radio", "textarea", "text", "fallback">>

\* The test in front of a handler; the fallback has none.
Matches(h, el, act) ==
    CASE h = "upload" -> TakesUploadBranch(el, act)
      [] h = "dropdown" -> IsDropdown(el, act)
      [] h = "checkbox" -> el.type = "checkbox"
      [] h = "radio" -> el.type = "radio"
      [] h = "textarea" -> el.tag = "textarea"
      [] h = "text" -> el.tag = "input" \/ el.type \in {"text", "email", "tel", "number", "url"}
      [] OTHER -> TRUE

ReturnsMutant(h) == h # "checkbox"

\* Every path through a handler ends with a return statement.
Returns(h) == TRUE

RECURSIVE RunFrom(_, _, _)
\* The handlers whose code runs when control reaches the k-th "if".
RunFrom(k, el, act) ==
    IF k > Len(HandlerOrder) THEN {}
    ELSE IF Matches(HandlerOrder[k], el, act)
    THEN {HandlerOrder[k]}
         \cup (IF Returns(HandlerOrder[k]) THEN {} ELSE RunFrom(k + 1, el, act))
    ELSE RunFrom(k + 1, el, act)

\* The handlers that run for an element, and the one that runs first.
HandlersRun(el, act) == RunFrom(1, el, act)

FirstHandler(el, act) ==
    HandlerOrder[First({k \in DOMAIN HandlerOrder : Matches(HandlerOrder[k], el, act)})]

DefaultTextMutant(h) == ""

\* What the typing handlers send for an empty value: the sentence of line
\* 959, generate_fallback(label, elem_type), "Test".
DefaultText(h) ==
    CASE h = "textarea" -> "I am interested in this position"
      [] h = "text" -> "fallback"
      [] OTHER -> "Test"

\* -------------------------------------------------------- smart_load_form

\* Numbers of displayed input, select and textarea elements a scan can find.
FieldCounts == {0, 4, EnoughAtStart, EnoughInLoop - 1, EnoughInLoop}

LoopContinuesMutant(done, n) == n < EnoughInLoop

\* After the scan that follows scroll number "done": the loop goes on unless
\* range(3) is used up or the break is taken.
LoopContinues(done, n) == done < ScrollBudget /\ n < EnoughInLoop

\* ------------------------------------------------------ generate_fallback

FallbackLabels ==
    { <<"E","m","a","i","l">>, <<"E","M","A","I","L"," ","i","d">>,
      <<"P","h","o","n","e">>, <<"p","h","o","n","e"," ","o","r"," ","e","m","a","i","l">>,
      <<"F","u","l","l"," ","N","a","m","e">>, <<"U","s","e","r","n","a","m","e">>,
      <<"A","g","e">>, <<"S","a","l","a","r","y">>, <<>> }

FallbackTypes == {"text", "email", "tel", "number", "url", ""}

\* random.randint(lo, hi): the two ends and the middle stand for the range.
RandInt(lo, hi) == {lo, (lo + hi) \div 2, hi}

DecimalDigits == <<"0","1","2","3","4","5","6","7","8","9">>

RECURSIVE Str(_)
\* str(n) of a natural number.
Str(n) ==
    IF n < 10 THEN <<DecimalDigits[n + 1]>>
    ELSE Str(n \div 10) \o <<DecimalDigits[(n % 10) + 1]>>

NoFallback == <<"None">>

\* The texts generate_fallback(label, field_type) can return.
GenerateFallback(lbl, ftype) ==
    IF Contains(Lower(lbl), <<"e","m","a","i","l">>)
    THEN {<<"t","e","s","t">> \o Str(n) \o <<"@","e","x","a","m","p","l","e",".","c","o","m">> :
            n \in RandInt(1000, 9999)}
    ELSE IF Contains(Lower(lbl), <<"p","h","o","n","e">>)
    THEN {<<"+","1","-","5","5","5","-">> \o Str(a) \o <<"-">> \o Str(b) :
            a \in RandInt(100, 999), b \in RandInt(1000, 9999)}
    ELSE IF Contains(Lower(lbl), <<"n","a","m","e">>)
    THEN {<<"T","e","s","t"," ","U","s","e","r">>}
    ELSE IF ftype = "number"
    THEN {Str(n) : n \in RandInt(1, 10)}
    ELSE {<<"T","e","s","t"," ","V","a","l","u","e">>}

\* A click on a checkbox toggles it.
Toggle(state, odd) == IF odd THEN ~state ELSE state

\* ---------------------------------------------- the text of an LLM response

\* The message content, cut into lexical pieces:
\*   "{" "}"  a brace that opens or closes a JSON object
\*   "m"      a member of "fields" with label "Email" and value "USE_MAPPER"
\*   "u"      a member of "fields" with label "University", value "USE_MAPPER"
\*   "n"      a member of "fields" with label null and value "USE_MAPPER"
\*   "v"      a member of "fields" with label "Email" and value "x"
\*   "p"      prose: text that is no JSON
\*   "fence"  a code-fence marker: three backquotes, with "json" or alone,
\*            and the white space after them
ResponseTokens == {"{", "}", "m", "u", "n", "v", "p", "fence"}

ResponseTexts == SeqsUpTo(ResponseTokens, MaxText)

\* The two re.sub calls: every fence marker is removed.
StripFences(text) == SelectSeq(text, LAMBDA c : c # "fence")

\* "match" is None.
NoMatch == <<"None">>

\* re.search(r'\{.*\}', text, re.DOTALL).group(): ".*" is greedy and DOTALL
\* lets it run over line ends, so the match goes from the first "{" to the
\* last "}" of the text.
SearchObject(text) ==
    LET opens == {i \in DOMAIN text : text[i] = "{"}
        closes == {j \in DOMAIN text : text[j] = "}" /\ opens # {} /\ j > First(opens)}
    IN  IF closes = {} THEN NoMatch
        ELSE SubSeq(text, First(opens), CHOOSE j \in closes : \A k \in closes : k <= j)

RECURSIVE Depth(_, _)
\* The number of objects open after the first k pieces of a text.
Depth(text, k) ==
    IF k = 0 THEN 0
    ELSE Depth(text, k - 1)
         + (IF text[k] = "{" THEN 1 ELSE IF text[k] = "}" THEN -1 ELSE 0)

\* json.loads(text) returns: the text is one object, closed by its last
\* piece and by no earlier one, with no prose in it and nothing after it.
JsonLoads(text) ==
    /\ Len(text) >= 2
    /\ text[1] = "{"
    /\ \A k \in 1..(Len(text) - 1) : Depth(text, k) >= 1
    /\ Depth(text, Len(text)) = 0
    /\ \A k \in DOMAIN text : text[k] # "p"

\* None in the resume data or as a field value.
NoData == "None"

\* A member of "fields", by its label and value.
FieldOf(piece) ==
    CASE piece = "m" -> [label |-> <<"E","m","a","i","l">>, value |-> "USE_MAPPER"]
      [] piece = "u" -> [label |-> <<"U","n","i","v","e","r","s","i","t","y">>,
                         value |-> "USE_MAPPER"]
      [] piece = "n" -> [label |-> NoData, value |-> "USE_MAPPER"]
      [] OTHER -> [label |-> <<"E","m","a","i","l">>, value |-> "x"]

\* result.get("fields", []) of the loaded object: its own members, in order.
LoadedFields(text) ==
    LET own == SelectSeq([k \in DOMAIN text |->
                            IF text[k] \in {"m", "u", "n", "v"} /\ Depth(text, k) = 1
                            THEN text[k] ELSE "-"],
                         LAMBDA c : c # "-")
    IN  [i \in DOMAIN own |-> FieldOf(own[i])]

\* The resume data by what map_field_value reads of it for these labels:
\*   email        personal_info.email: NoData (absent or null), "" or a text
\*   institution  "noedu" (education is empty or absent), else
\*                education[0].institution: NoData (absent or null) or a text
ResumeDatas == [email : {NoData, "", "a@b"}, institution : {"noedu", NoData, "MIT"}]

\* "x or ''"
OrEmpty(x) == IF x = NoData \/ x = "" THEN "" ELSE x

\* SmartDataMapper.map_field_value(label, field_type, resume_data, ""): the
\* first keyword group found in the lower-cased label decides.
MapFieldValue(lbl, resume) ==
    LET label_lower == Lower(lbl \o <<" ">>)
    IN  IF \/ Contains(<<"e","m","a","i","l">>, label_lower)
           \/ Contains(<<"e","-","m","a","i","l">>, label_lower)
        THEN OrEmpty(resume.email)
        ELSE IF \/ Contains(<<"u","n","i","v","e","r","s","i","t","y">>, label_lower)
                \/ Contains(<<"c","o","l","l","e","g","e">>, label_lower)
        THEN (IF resume.institution = "noedu" THEN "" ELSE resume.institution)
        ELSE ""

IsMarkerMutant(value) == FALSE

\* field.get("value") == "USE_MAPPER"
IsMarker(value) == value = "USE_MAPPER"

\* (label + " " + placeholder) raises TypeError when the label is None.
MapperRaises(lbl) == lbl = NoData

\* Lines 571-575: the marker is replaced in place.
Remapped(field, resume) ==
    IF IsMarker(field.value)
    THEN [field EXCEPT !.value = MapFieldValue(field.label, resume)]
    ELSE field

\* analyze_form past the chat-completion call: "loaded" is the text handed to
\* json.loads (<<>>: none), "parsed" whether it returned, "fields" are the
\* fields of the dict analyze_form returns.  An exception of json.loads or
\* of the replacement loop is caught and the empty analysis returned.
NotAnalyzed == [done |-> FALSE, loaded |-> <<>>, parsed |-> FALSE, fields |-> <<>>]

AnalyzeText(text, resume) ==
    LET stripped == StripFences(text)
        match == SearchObject(stripped)
    IN  IF match = NoMatch
        THEN [done |-> TRUE, loaded |-> <<>>, parsed |-> FALSE, fields |-> <<>>]
        ELSE IF ~JsonLoads(match)
        THEN [done |-> TRUE, loaded |-> match, parsed |-> FALSE, fields |-> <<>>]
        ELSE IF \E i \in DOMAIN LoadedFields(match) :
                    /\ IsMarker(LoadedFields(match)[i].value)
                    /\ MapperRaises(LoadedFields(match)[i].label)
        THEN [done |-> TRUE, loaded |-> match, parsed |-> TRUE, fields |-> <<>>]
        ELSE [done |-> TRUE, loaded |-> match, parsed |-> TRUE,
              fields |-> [i \in DOMAIN LoadedFields(match) |->
                            Remapped(LoadedFields(match)[i], resume)]]

\* -------------------------------------------------------- attempt_submit

\* The page as attempt_submit meets it:
\*   mapped  the mapped selector resolves and its scroll and click succeed
\*   button  //button[@type='submit'] is found, displayed and clicked
\*   input   //input[@type='submit'] is found, displayed and clicked
SubmitPages == [mapped : BOOLEAN, button : BOOLEAN, input : BOOLEAN]

\* attempt_submit: result "true" | "false" | "raised" and the clicks performed
\* (submit_info.get on a truthy value that is no dict raises AttributeError
\* outside of the try blocks).
AttemptSubmit(info, pg) ==
    IF info = "nondict" THEN [result |-> "raised", clicks |-> 0]
    ELSE IF info = "selector" /\ pg.mapped THEN [result |-> "true", clicks |-> 1]
    ELSE IF pg.button THEN [result |-> "true", clicks |-> 1]
    ELSE IF pg.input THEN [result |-> "true", clicks |-> 1]
    ELSE [result |-> "false", clicks |-> 0]

\* attempt_submit on a page described element by element.  "mapped" is what
\* the try block of lines 1074-1083 comes to: the button is clicked, it is
\* not found, or scrolling to it or clicking it raises.  "buttons" and
\* "inputs" are the elements //button[@type='submit'] and
\* //input[@type='submit'] match, in document order: displayed, not
\* displayed, or one whose is_displayed or click raises.
SubmitSearches ==
    [mapped : {"clicked", "notfound", "clickfails"},
     buttons : SeqsUpTo({"visible", "hidden", "stale"}, MaxButtons),
     inputs : SeqsUpTo({"visible", "hidden", "stale"}, MaxButtons)]

NotSubmitted == [done |-> FALSE, result |-> "none", clicked |-> {}]

\* driver.find_element gives the first match; it is clicked when displayed.
GenericClick(kind, found) ==
    IF found # <<>> /\ found[1] = "visible" THEN {<<kind, 1>>} ELSE {}

\* The result of the call and the elements it clicked, each named by its
\* selector and its position among the matches.
AttemptSubmitOn(info, pg) ==
    IF info = "nondict"
    THEN [done |-> TRUE, result |-> "raised", clicked |-> {}]
    ELSE IF info = "selector" /\ pg.mapped = "clicked"
    THEN [done |-> TRUE, result |-> "true", clicked |-> {<<"mapped", 1>>}]
    ELSE IF GenericClick("button", pg.buttons) # {}
    THEN [done |-> TRUE, result |-> "true", clicked |-> GenericClick("button", pg.buttons)]
    ELSE IF GenericClick("input", pg.inputs) # {}
    THEN [done |-> TRUE, result |-> "true", clicked |-> GenericClick("input", pg.inputs)]
    ELSE [done |-> TRUE, result |-> "false", clicked |-> {}]

\* -------------------------------------------------------- detect_success

\* The page as detect_success meets it: whether reading the body text raises,
\* whether the text holds one of the indicators, whether the URL holds one.
ResultPages == [raises : BOOLEAN, text : BOOLEAN, url : BOOLEAN]

DetectSuccess(pg) == IF pg.raises THEN FALSE ELSE pg.text \/ pg.url

\* ----------------------------------- detect_success on texts and URLs

\* ["thank you", "success", "submitted", "received", "confirmation"]
TextIndicators ==
    { <<"t","h","a","n","k"," ","y","o","u">>, <<"s","u","c","c","e","s","s">>,
      <<"s","u","b","m","i","t","t","e","d">>, <<"r","e","c","e","i","v","e","d">>,
      <<"c","o","n","f","i","r","m","a","t","i","o","n">> }

\* ['success', 'confirmation', 'thank']
UrlWords ==
    { <<"s","u","c","c","e","s","s">>, <<"c","o","n","f","i","r","m","a","t","i","o","n">>,
      <<"t","h","a","n","k">> }

\* The body texts and URLs tried.
PageTexts ==
    { <<>>, <<"T","h","a","n","k"," ","Y","o","u">>, <<"S","U","C","C","E","S","S">>,
      <<"F","o","r","m"," ","s","u","b","m","i","t","t","e","d">>,
      <<"W","e"," ","r","e","c","e","i","v","e","d"," ","i","t">>,
      <<"C","o","n","f","i","r","m","a","t","i","o","n">>,
      <<"T","h","a","n","k","s">>,
      <<"E","r","r","o","r",":"," ","r","e","q","u","i","r","e","d">> }

PageUrls ==
    { <<"/","a","p","p","l","y">>, <<"/","S","u","c","c","e","s","s">>, <<"/","c","o","n","f","i","r","m","a","t","i","o","n">>,
      <<"/","t","h","a","n","k","-","y","o","u">>, <<"/","s","u","b","m","i","t","t","e","d">>,
      <<"/","r","e","c","e","i","v","e","d">> }

\* "indicator in page_text" for one of the indicators.
TextShowsSuccessMutant(text) ==
    \E ind \in TextIndicators \ {<<"r","e","c","e","i","v","e","d">>} :
        Contains(ind, Lower(text))

TextShowsSuccess(text) == \E ind \in TextIndicators : Contains(ind, Lower(text))

\* "any(w in url for w in [...])"
UrlShowsSuccess(url) == \E w \in UrlWords : Contains(w, Lower(url))

\* detect_success; raises is "none", "body" (reading the body text raises)
\* or "url" (reading driver.current_url raises): the bare except returns
\* False.
DetectSuccessOn(text, url, raises) ==
    IF raises = "body" THEN FALSE
    ELSE IF TextShowsSuccess(text) THEN TRUE
    ELSE IF raises = "url" THEN FALSE
    ELSE UrlShowsSuccess(url)

\* Lines 1456-1483: how one attempt is classified.  "scanned" says whether
\* check_errors was called; shown: it finds a visible error text.
NotClassified == [done |-> FALSE, success |-> FALSE, scanned |-> FALSE]

ClassifyAttempt(text, url, raises, shown) ==
    IF DetectSuccessOn(text, url, raises)
    THEN [done |-> TRUE, success |-> TRUE, scanned |-> FALSE]
    ELSE [done |-> TRUE, success |-> ~shown, scanned |-> TRUE]

\* ---------------------------------------------------------- check_errors

\* An element an error selector matches: is_displayed() and its stripped text
\* (the text by name and length).
ErrElems ==
    { [displayed |-> TRUE,  text |-> "e1",    len |-> 12],
      [displayed |-> TRUE,  text |-> "e2",    len |-> ErrorTextLimit - 1],
      [displayed |-> TRUE,  text |-> "long",  len |-> ErrorTextLimit],
      [displayed |-> TRUE,  text |-> "longer", len |-> ErrorTextLimit + 100],
      [displayed |-> FALSE, text |-> "e1",    len |-> 12] }

\* The elements the loop of check_errors gets to see for each of the three
\* selectors (class 'error', class 'invalid', role 'alert'), in this order; a
\* lookup that raises is left ("continue") and shows no further element.
SelectorResults == SeqsUpTo(ErrElems, MaxErrElems)

ErrorPages ==
    {p \in [1..3 -> SelectorResults] : Len(p[1]) + Len(p[2]) + Len(p[3]) <= MaxErrElems}

Collectable(e) == e.displayed /\ e.len > 0 /\ e.len < ErrorTextLimit

RECURSIVE CollectTexts(_)
CollectTexts(elems) ==
    IF elems = <<>> THEN <<>>
    ELSE (IF Collectable(Head(elems)) THEN <<Head(elems).text>> ELSE <<>>)
         \o CollectTexts(Tail(elems))

\* check_errors: the texts collected, selector by selector.
CheckErrors(p) == CollectTexts(p[1]) \o CollectTexts(p[2]) \o CollectTexts(p[3])

\* The pages tried for a check_errors call on its own.
ScannedPages ==
    {p \in [1..3 -> SeqsUpTo(ErrElems, MaxScanned)] :
        Len(p[1]) + Len(p[2]) + Len(p[3]) <= MaxScanned}

NotScanned == [done |-> FALSE, errors |-> <<>>]

\* ------------------------------------------------ extract_form_structure

\* The page as the extraction script meets it: whether execute_script raises,
\* whether its result is a JSON text, and how many visible fields sit inside
\* forms and outside of every form.
ExtractPages ==
    [raises : BOOLEAN, parsed : BOOLEAN, formFields : 0..MaxFields, standalone : 0..MaxFields]

\* format_for_llm: one "FIELD: ..." line per field, forms first; the text is
\* modelled by its number of lines.
FormatForLLM(pg) == pg.formFields + pg.standalone

\* extract_form_structure (past the script call): "" when json.loads fails.
ExtractFormStructure(pg) == IF pg.parsed THEN FormatForLLM(pg) ELSE 0

NoFormFoundMutant(lines) == FALSE

\* "if not form_structure": the empty string.
NoFormFound(lines) == lines = 0

\* ------------------------------------- the controls of a page, one by one

\* An input, select or textarea element of the page:
\*   type      el.type: "hidden", "submit", or "text" for every other type
\*   rendered  el.offsetParent is not null
\*   inForm    the element has a <form> ancestor
\*   state     "filled" (el.value.trim() is not empty), "required" (empty and
\*             required or aria-required), "optional" (empty, not required)
Controls ==
    [type : {"text", "hidden", "submit"}, rendered : BOOLEAN, inForm : BOOLEAN,
     state : {"filled", "required", "optional"}]

\* The controls of a page in document order.
ControlLists == SeqsUpTo(Controls, MaxControls)

ExtractFieldMutant(el) == el.type # "hidden"

\* extractField(el) returns a field: "if (el.type === 'hidden' ||
\* !el.offsetParent) return null".
ExtractField(el) == ~(el.type = "hidden" \/ ~el.rendered)

\* The positions of a list, in order.
Positions(list) == [i \in DOMAIN list |-> i]

\* extractForm(): the fields of the form and the standalone fields, each
\* named by the position of its control; a form without fields is left out.
ExtractFormScript(list) ==
    [done |-> TRUE,
     forms |-> SelectSeq(Positions(list),
                         LAMBDA i : list[i].inForm /\ ExtractField(list[i])),
     standalone |-> SelectSeq(Positions(list),
                              LAMBDA i : ~list[i].inForm /\ ExtractField(list[i]))]

\* The lines of "FIELD: {label} (Type: ..., ID: ...)" for the control at
\* position i: the label is textContent.trim(), which keeps a line break
\* inside the label.
FieldLines(i, broken) ==
    IF i \in broken THEN << <<i, 1>>, <<i, 2>> >> ELSE << <<i, 1>> >>

RECURSIVE JoinLines(_, _)
\* '\n'.join(lines) of format_for_llm over the fields in the order given,
\* as the sequence of the lines of the text.
JoinLines(order, broken) ==
    IF order = <<>> THEN <<>>
    ELSE FieldLines(Head(order), broken) \o JoinLines(Tail(order), broken)

\* format_for_llm(data): the fields of the forms, then the standalone fields.
FormatFields(data, broken) == JoinLines(data.forms \o data.standalone, broken)

\* The forEach of verify_fields skips an element: hidden, not rendered, or
\* a button.
VerifySkips(el) == el.type = "hidden" \/ ~el.rendered \/ el.type = "submit"

\* verify_fields: the controls reported as filled and as empty, by position.
VerifyFields(list) ==
    [done |-> TRUE,
     filled |-> SelectSeq(Positions(list),
                          LAMBDA i : ~VerifySkips(list[i]) /\ list[i].state = "filled"),
     empty |-> SelectSeq(Positions(list),
                         LAMBDA i : ~VerifySkips(list[i]) /\ list[i].state = "required")]

NotExtracted == [done |-> FALSE, forms |-> <<>>, standalone |-> <<>>]
NotVerified == [done |-> FALSE, filled |-> <<>>, empty |-> <<>>]

\* ------------------------------------------------- fill_form_from_resume

NoSubmitError == "Could not find or click submit button"

FailureReport(message, filled, total, errors) ==
    [success |-> FALSE, message |-> message, fieldsFilled |-> filled,
     totalFields |-> total, errors |-> errors]

SuccessReport(filled, total) ==
    [success |-> TRUE, message |-> <<>>, fieldsFilled |-> filled,
     totalFields |-> total, errors |-> <<>>]

\* "if email_notifier: email_notifier.send_...(...)"
Notified(report) == IF send_email THEN Append(reports, report) ELSE reports

\* The mail side as send_email meets it:
\*   configured  sender address, password and recipient are all set
\*   smtp        "ok", or the step of the SMTP session that raises: the
\*               connection, STARTTLS, the login, or sending the message
MailEnvs == [configured : BOOLEAN, smtp : {"ok", "connect", "starttls", "login", "send"}]

SendEmailMutant(env) ==
    IF ~env.configured THEN "false"
    ELSE IF env.smtp = "ok" THEN "true"
    ELSE "raised"

\* EmailNotifier.send_email: "true" | "false" | "raised".  The whole body is
\* inside try/except Exception, which returns False.
SendEmail(env) ==
    IF ~env.configured THEN "false"
    ELSE IF env.smtp = "ok" THEN "true"
    ELSE "false"

\* send_failure_email and send_success_email end with
\* "return self.send_email(...)"; the caller drops the value.
Deliver ==
    IF reports' = reports THEN delivered' = delivered
    ELSE \E env \in MailEnvs : delivered' = Append(delivered, SendEmail(env))

\* Where a return inside the try block leads: the finally clause.
AfterReturnMutant == "done"

AfterReturn == "finally"

\* "if retry < max_submit_retries - 1": another attempt is permitted.
RetriesRemainMutant(r, m) == r < m - 2

RetriesRemain(r, m) == r < m - 1

AfterFillMutant(i, n) == "verify"

\* The fill loop "for idx, field_info in enumerate(fields)": on to the next
\* field, or to the code after the loop behind the last one.
AfterFill(i, n) == IF i = n THEN "verify" ELSE "fill"

ProfileParsedMutant(outcome) == outcome # "raised"

\* parse_resume returned and "if not resume_data" is false.
ProfileParsed(outcome) == outcome = "data"

EntersLoopMutant(flag, retries) == 0 < retries

\* "if actually_submit: for retry in range(max_submit_retries)": the loop
\* has a first iteration.
EntersLoop(flag, retries) == flag /\ 0 < retries

IterationStartMutant(r) == "presubmit"

\* The head of an iteration of the submission loop: "if retry == 0".
IterationStart(r) == IF r = 0 THEN "presubmit" ELSE "submit"

ReplacedReportMutant(held) == held

\* "verification = verify_fields(driver)": the report held is the new one.
ReplacedReport(held) == TRUE

\* Where "submitted = False" leads: break, to the code after the loop.
SubmitFailedNextMutant == "detect"

SubmitFailedNext == "notify"

\* Where a detected success leads: break, to the code after the loop.
SuccessNextMutant == "errors"

SuccessNext == "notify"

\* "final_errors = check_errors(driver)": the list is replaced.
NewFinalErrorsMutant(old, collected) == old \o collected

NewFinalErrors(old, collected) == collected

\* "if final_errors:" the attempt was rejected with explicit errors.
RejectedWithMutant(errors) == TRUE

RejectedWithNever(errors) == FALSE

RejectedWith(errors) == errors # <<>>

\* Every driver call: noted when the browser is not open.
UsesBrowser == opsAfterQuit' = (opsAfterQuit \/ browser # "open")

\* A page-level abort inside the try block: failure e-mail, return False.
AbortPage(path, message) ==
    /\ reports' = Notified(FailureReport(<<message>>, 0, 0, <<>>))
    /\ ret' = "false"
    /\ exitPath' = path
    /\ pc' = AfterReturn

\* An exception raised inside the try block: control goes to the handler.
Raise == pc' = "handler" /\ UNCHANGED <<reports, ret, exitPath>>

\* The matching call is not part of a controller run.
SelectIdle ==
    /\ selValue = NoneValue
    /\ selTexts = <<>>
    /\ selRaises = FALSE
    /\ nativeResult = NotApplied
    /\ customResult = NotApplied

\* fill_any_dropdown on its own is not part of a controller run.
DropdownIdle ==
    /\ ddPc = "idle"
    /\ max_retries = 0
    /\ attempt = 0
    /\ ddValue = NoneValue
    /\ tried = <<>>
    /\ opened = FALSE
    /\ selectCalls = 0
    /\ selectRet = "none"
    /\ ddRet = "none"

\* fill_field on its own is not part of a controller run.
FillIdle ==
    /\ action = "type"
    /\ field_type = "checkbox"
    /\ fvalue = ""
    /\ label = <<>>
    /\ resume_path = NoPath
    /\ cover_letter_path = NoPath
    /\ resumeOnDisk = FALSE
    /\ coverOnDisk = FALSE
    /\ element = NoElement
    /\ checked = FALSE
    /\ lastCall = "none"
    /\ uploadValue = Raw("")
    /\ sent = {}
    /\ fret = FALSE
    /\ ran = {}
    /\ unchecked = FALSE

\* analyze_form is not called on its own.
RespIdle ==
    /\ llmText = <<>>
    /\ resume_data = [email |-> NoData, institution |-> "noedu"]
    /\ analyzed = NotAnalyzed

\* No page is scanned on its own.
DomIdle ==
    /\ controls = <<>>
    /\ form_data = NotExtracted
    /\ form_text = <<>>
    /\ verification = NotVerified

\* No attempt is classified on its own.
DetIdle ==
    /\ page_text = <<>>
    /\ current_url = <<>>
    /\ readRaises = "none"
    /\ errorsShown = FALSE
    /\ classified = NotClassified

\* check_errors is not called on its own.
ErrIdle ==
    /\ errorPage = [i \in 1..3 |-> <<>>]
    /\ scan = NotScanned

\* attempt_submit is not called on its own.
SubmitIdle ==
    /\ submit_info = "empty"
    /\ submitPage = [mapped |-> "notfound", buttons |-> <<>>, inputs |-> <<>>]
    /\ submitted = NotSubmitted

\* generate_fallback is not called on its own.
FallbackIdle ==
    /\ fbLabel = <<>>
    /\ fbType = ""
    /\ fbValue = NoFallback

\* smart_load_form is not called on its own.
LoadIdle ==
    /\ loadPc = "idle"
    /\ scrollPos = "top"
    /\ startPos = "top"
    /\ scrolls = 0
    /\ seen = <<>>
    /\ loadRet = "none"

Init ==
    /\ SelectIdle
    /\ LoadIdle
    /\ FallbackIdle
    /\ SubmitIdle
    /\ ErrIdle
    /\ DetIdle
    /\ DomIdle
    /\ RespIdle
    /\ DropdownIdle
    /\ FillIdle
    /\ pc = "start"
    /\ actually_submit \in BOOLEAN
    /\ send_email \in BOOLEAN
    /\ max_submit_retries \in 0..MaxRetries
    /\ resume_exists \in BOOLEAN
    /\ browser = "none"
    /\ fields = <<>>
    /\ submit_button = "empty"
    /\ idx = 1
    /\ fields_filled = 0
    /\ total_fields = 0
    /\ final_errors = <<>>
    /\ submission_success = FALSE
    /\ retry = 0
    /\ ret = "none"
    /\ reports = <<>>
    /\ delivered = <<>>
    /\ reportFresh = FALSE
    /\ staleGapFill = FALSE
    /\ fillCalls = <<>>
    /\ fillTrue = 0
    /\ fillFailures = 0
    /\ attempts = 0
    /\ clicks = 0
    /\ verifies = 0
    /\ gapFills = 0
    /\ quits = 0
    /\ opsAfterQuit = FALSE
    /\ observed = {}
    /\ checks = 0
    /\ rejected = 0
    /\ extractions = 0
    /\ extracted = "none"
    /\ lastSeen = <<>>
    /\ lastSubmit = "none"
    /\ lastResponse = NoResponse
    /\ exitPath = "none"
    /\ parsed = "none"

\* Lines 1282-1294: the resume path is missing or does not exist.
CheckResume ==
    /\ pc = "start"
    /\ IF resume_exists
       THEN /\ pc' = "parse"
            /\ UNCHANGED <<reports, ret, exitPath>>
       ELSE /\ reports' = Notified(FailureReport(<<"Resume not found">>, 0, 0, <<>>))
            /\ ret' = "false"
            /\ exitPath' = "resume_missing"
            /\ pc' = "done"
    /\ Deliver
    /\ UNCHANGED <<actually_submit, send_email, max_submit_retries,
                   resume_exists, browser, fields, submit_button, idx,
                   fields_filled, total_fields, final_errors, submission_success,
                   retry, reportFresh, staleGapFill, fillCalls, fillTrue,
                   fillFailures, attempts, clicks, verifies, gapFills, quits,
                   opsAfterQuit, observed, checks, rejected, extractions,
                   extracted, lastSeen, lastSubmit, lastResponse, parsed,
                   selVars, ddVars, fillVars, respVars, domVars, detVars,
                   errVars, loadVars, fbVars, subVars>>

\* Lines 1296-1326: ResumeParser(...).parse_resume(resume_path) returns the
\* profile ("data"), returns {} ("empty") or raises ("raised").
ParseResume(outcome) ==
    /\ pc = "parse"
    /\ parsed' = outcome
    /\ IF ProfileParsed(outcome)
       THEN /\ pc' = "init"
            /\ UNCHANGED <<reports, ret, exitPath>>
       ELSE /\ reports' = Notified(FailureReport(
                    <<IF outcome = "empty" THEN "Could not parse resume"
                                          ELSE "Resume parsing failed">>, 0, 0, <<>>))
            /\ ret' = "false"
            /\ exitPath' = "resume_unparsed"
            /\ pc' = "done"
    /\ Deliver
    /\ UNCHANGED <<actually_submit, send_email, max_submit_retries,
                   resume_exists, browser, fields, submit_button, idx,
                   fields_filled, total_fields, final_errors, submission_success,
                   retry, reportFresh, staleGapFill, fillCalls, fillTrue,
                   fillFailures, attempts, clicks, verifies, gapFills, quits,
                   opsAfterQuit, observed, checks, rejected, extractions,
                   extracted, lastSeen, lastSubmit, lastResponse, selVars,
                   ddVars, fillVars, respVars, domVars, detVars, errVars,
                   loadVars, fbVars, subVars>>

\* Lines 1328-1337: the analyzer and the browser are created outside of the
\* try block; an exception of get_driver leaves the function uncaught.
Initialize(outcome) ==
    /\ pc = "init"
    /\ IF outcome = "ok"
       THEN /\ browser' = "open"
            /\ pc' = "navigate"
            /\ UNCHANGED <<ret, exitPath>>
       ELSE /\ browser' = browser
            /\ ret' = "raised"
            /\ exitPath' = "driver_failed"
            /\ pc' = "done"
    /\ fields_filled' = 0
    /\ total_fields' = 0
    /\ final_errors' = <<>>
    /\ submission_success' = FALSE
    /\ UNCHANGED <<actually_submit, send_email, max_submit_retries,
                   resume_exists, fields, submit_button, idx, retry, reports,
                   delivered, reportFresh, staleGapFill, fillCalls, fillTrue,
                   fillFailures, attempts, clicks, verifies, gapFills, quits,
                   opsAfterQuit, observed, checks, rejected, extractions,
                   extracted, lastSeen, lastSubmit, lastResponse, parsed,
                   selVars, ddVars, fillVars, respVars, domVars, detVars,
                   errVars, loadVars, fbVars, subVars>>

\* Lines 1340-1351: driver.get(url), extract_job_info, click_apply_button (the
\* last two catch their own exceptions).
Navigate(outcome) ==
    /\ pc = "navigate"
    /\ UsesBrowser
    /\ IF outcome = "ok"
       THEN pc' = "load" /\ UNCHANGED <<reports, ret, exitPath>>
       ELSE Raise
    /\ Deliver
    /\ UNCHANGED <<actually_submit, send_email, max_submit_retries,
                   resume_exists, browser, fields, submit_button, idx,
                   fields_filled, total_fields, final_errors, submission_success,
                   retry, reportFresh, staleGapFill, fillCalls, fillTrue,
                   fillFailures, attempts, clicks, verifies, gapFills, quits,
                   observed, checks, rejected, extractions, extracted, lastSeen,
                   lastSubmit, lastResponse, parsed, selVars, ddVars, fillVars,
                   respVars, domVars, detVars, errVars, loadVars, fbVars, subVars>>

\* Lines 1353-1366: smart_load_form returns True ("loaded"), returns False
\* ("nofields") or raises ("raised").
LoadForm(outcome) ==
    /\ pc = "load"
    /\ UsesBrowser
    /\ CASE outcome = "loaded" -> pc' = "extract" /\ UNCHANGED <<reports, ret, exitPath>>
         [] outcome = "nofields" -> AbortPage("not_loaded", "Could not load form")
         [] OTHER -> Raise
    /\ Deliver
    /\ UNCHANGED <<actually_submit, send_email, max_submit_retries,
                   resume_exists, browser, fields, submit_button, idx,
                   fields_filled, total_fields, final_errors, submission_success,
                   retry, reportFresh, staleGapFill, fillCalls, fillTrue,
                   fillFailures, attempts, clicks, verifies, gapFills, quits,
                   observed, checks, rejected, extractions, extracted, lastSeen,
                   lastSubmit, lastResponse, parsed, selVars, ddVars, fillVars,
                   respVars, domVars, detVars, errVars, loadVars, fbVars, subVars>>

\* Lines 1368-1382: extract_form_structure; an empty text aborts the page.
ExtractForm(pg) ==
    /\ pc = "extract"
    /\ UsesBrowser
    /\ pg.raises => pg.parsed /\ pg.formFields = 0 /\ pg.standalone = 0
    /\ extractions' = extractions + 1
    /\ extracted' = IF pg.raises THEN extracted
                    ELSE IF pg.formFields + pg.standalone = 0 THEN "nothing" ELSE "fields"
    /\ IF pg.raises THEN Raise
       ELSE IF NoFormFound(ExtractFormStructure(pg))
            THEN AbortPage("no_form", "No form found on page")
            ELSE pc' = "analyze" /\ UNCHANGED <<reports, ret, exitPath>>
    /\ Deliver
    /\ UNCHANGED <<actually_submit, send_email, max_submit_retries,
                   resume_exists, browser, fields, submit_button, idx,
                   fields_filled, total_fields, final_errors, submission_success,
                   retry, reportFresh, staleGapFill, fillCalls, fillTrue,
                   fillFailures, attempts, clicks, verifies, gapFills, quits,
                   observed, checks, rejected, lastSeen, lastSubmit,
                   lastResponse, parsed, selVars, ddVars, fillVars, respVars,
                   domVars, detVars, errVars, loadVars, fbVars, subVars>>

\* Lines 1384-1401: analyze_form; an empty field list aborts the page.
Analyze(resp) ==
    /\ pc = "analyze"
    /\ lastResponse' = resp
    /\ LET analysis == AnalyzeForm(resp)
       IN /\ fields' = GetFields(analysis)
          /\ submit_button' = GetSubmitButton(analysis)
          /\ total_fields' = Len(GetFields(analysis))
          /\ IF GetFields(analysis) = <<>>
             THEN /\ AbortPage("no_fields", "No fillable fields found")
                  /\ idx' = idx
             ELSE /\ pc' = "fill"
                  /\ idx' = 1
                  /\ UNCHANGED <<reports, ret, exitPath>>
    /\ Deliver
    /\ UNCHANGED <<actually_submit, send_email, max_submit_retries,
                   resume_exists, browser, fields_filled, final_errors,
                   submission_success, retry, reportFresh, staleGapFill,
                   fillCalls, fillTrue, fillFailures, attempts, clicks, verifies,
                   gapFills, quits, opsAfterQuit, observed, checks, rejected,
                   extractions, extracted, lastSeen, lastSubmit, parsed, selVars,
                   ddVars, fillVars, respVars, domVars, detVars, errVars,
                   loadVars, fbVars, subVars>>

\* Lines 1407-1412: one iteration of the fill loop.
FillNext(outcome) ==
    /\ pc = "fill"
    /\ idx <= Len(fields)
    /\ UsesBrowser
    /\ LET r == FillField(outcome)
       IN /\ fillCalls' = Append(fillCalls, idx)
          /\ fillTrue' = IF r THEN fillTrue + 1 ELSE fillTrue
          /\ fillFailures' = IF outcome = "filled" THEN fillFailures ELSE fillFailures + 1
          /\ fields_filled' = IF r THEN fields_filled + 1 ELSE fields_filled
    /\ idx' = idx + 1
    /\ reportFresh' = FALSE
    /\ pc' = AfterFill(idx, Len(fields))
    /\ UNCHANGED <<actually_submit, send_email, max_submit_retries,
                   resume_exists, browser, fields, submit_button, total_fields,
                   final_errors, submission_success, retry, ret, reports,
                   delivered, staleGapFill, attempts, clicks, verifies, gapFills,
                   quits, observed, checks, rejected, extractions, extracted,
                   lastSeen, lastSubmit, lastResponse, exitPath, parsed, selVars,
                   ddVars, fillVars, respVars, domVars, detVars, errVars,
                   loadVars, fbVars, subVars>>

\* Lines 1414-1426: verify_fields after the fill loop, then the head of the
\* submission loop "for retry in range(max_submit_retries)".
Verify(raises) ==
    /\ pc = "verify"
    /\ UsesBrowser
    /\ verifies' = verifies + 1
    /\ IF raises THEN Raise /\ UNCHANGED <<retry, reportFresh>>
       ELSE /\ retry' = 0
            /\ reportFresh' = ReplacedReport(reportFresh)
            /\ pc' = IF EntersLoop(actually_submit, max_submit_retries)
                     THEN IterationStart(0) ELSE "notify"
            /\ UNCHANGED <<reports, ret, exitPath>>
    /\ Deliver
    /\ UNCHANGED <<actually_submit, send_email, max_submit_retries,
                   resume_exists, browser, fields, submit_button, idx,
                   fields_filled, total_fields, final_errors, submission_success,
                   staleGapFill, fillCalls, fillTrue, fillFailures, attempts,
                   clicks, gapFills, quits, observed, checks, rejected,
                   extractions, extracted, lastSeen, lastSubmit, lastResponse,
                   parsed, selVars, ddVars, fillVars, respVars, domVars, detVars,
                   errVars, loadVars, fbVars, subVars>>

\* Lines 1431-1441, first iteration only: verify_fields, fill_empty_fields on
\* the n empty required fields (it fills count of them), verify_fields again.
PreSubmit(raise1, n, count, raise2) ==
    /\ pc = "presubmit"
    /\ count <= n                                  \* fill_empty_fields counts each field once
    /\ raise1 => n = 0                             \* nothing is read from a failed verify
    /\ (raise1 \/ count = 0) => ~raise2            \* no second verify to fail
    /\ UsesBrowser
    /\ IF raise1
       THEN /\ Raise
            /\ verifies' = verifies + 1
            /\ UNCHANGED <<gapFills, fields_filled, reportFresh, staleGapFill>>
       ELSE IF n = 0
       THEN /\ pc' = "submit"
            /\ verifies' = verifies + 1
            /\ reportFresh' = ReplacedReport(reportFresh)
            /\ UNCHANGED <<gapFills, fields_filled, reports, ret, exitPath, staleGapFill>>
       ELSE IF count = 0
       THEN /\ pc' = "submit"
            /\ verifies' = verifies + 1
            /\ gapFills' = gapFills + 1
            /\ staleGapFill' = (staleGapFill \/ ~ReplacedReport(reportFresh))
            /\ reportFresh' = FALSE
            /\ UNCHANGED <<fields_filled, reports, ret, exitPath>>
       ELSE /\ verifies' = verifies + 2
            /\ gapFills' = gapFills + 1
            /\ staleGapFill' = (staleGapFill \/ ~ReplacedReport(reportFresh))
            /\ fields_filled' = fields_filled + count
            /\ IF raise2 THEN Raise /\ reportFresh' = FALSE
               ELSE /\ pc' = "submit"
                    /\ reportFresh' = ReplacedReport(FALSE)
                    /\ UNCHANGED <<reports, ret, exitPath>>
    /\ Deliver
    /\ UNCHANGED <<actually_submit, send_email, max_submit_retries,
                   resume_exists, browser, fields, submit_button, idx,
                   total_fields, final_errors, submission_success, retry,
                   fillCalls, fillTrue, fillFailures, attempts, clicks, quits,
                   observed, checks, rejected, extractions, extracted, lastSeen,
                   lastSubmit, lastResponse, parsed, selVars, ddVars, fillVars,
                   respVars, domVars, detVars, errVars, loadVars, fbVars, subVars>>

\* Lines 1443-1454: attempt_submit; "break" when nothing could be clicked.
Submit(pg) ==
    /\ pc = "submit"
    /\ UsesBrowser
    /\ attempts' = attempts + 1
    /\ LET s == AttemptSubmit(submit_button, pg)
       IN /\ lastSubmit' = s.result
          /\ clicks' = clicks + s.clicks
          /\ reportFresh' = (reportFresh /\ s.clicks = 0)
          /\ CASE s.result = "raised" -> Raise /\ final_errors' = final_errors
               [] s.result = "false" ->
                    /\ final_errors' = Append(final_errors, NoSubmitError)
                    /\ pc' = SubmitFailedNext
                    /\ UNCHANGED <<reports, ret, exitPath>>
               [] OTHER ->
                    /\ final_errors' = final_errors
                    /\ pc' = "detect"
                    /\ UNCHANGED <<reports, ret, exitPath>>
    /\ Deliver
    /\ UNCHANGED <<actually_submit, send_email, max_submit_retries,
                   resume_exists, browser, fields, submit_button, idx,
                   fields_filled, total_fields, submission_success, retry,
                   staleGapFill, fillCalls, fillTrue, fillFailures, verifies,
                   gapFills, quits, observed, checks, rejected, extractions,
                   extracted, lastSeen, lastResponse, parsed, selVars, ddVars,
                   fillVars, respVars, domVars, detVars, errVars, loadVars,
                   fbVars, subVars>>

\* Lines 1456-1460: detect_success; "break" on success.
Detect(pg) ==
    /\ pc = "detect"
    /\ UsesBrowser
    /\ IF DetectSuccess(pg)
       THEN submission_success' = TRUE /\ pc' = SuccessNext
       ELSE submission_success' = submission_success /\ pc' = "errors"
    /\ UNCHANGED <<actually_submit, send_email, max_submit_retries,
                   resume_exists, browser, fields, submit_button, idx,
                   fields_filled, total_fields, final_errors, retry, ret,
                   reports, delivered, reportFresh, staleGapFill, fillCalls,
                   fillTrue, fillFailures, attempts, clicks, verifies, gapFills,
                   quits, observed, checks, rejected, extractions, extracted,
                   lastSeen, lastSubmit, lastResponse, exitPath, parsed, selVars,
                   ddVars, fillVars, respVars, domVars, detVars, errVars,
                   loadVars, fbVars, subVars>>

\* Lines 1462-1483: check_errors and the classification of the attempt.
Errors(pg) ==
    /\ pc = "errors"
    /\ UsesBrowser
    /\ LET collected == CheckErrors(pg)
           errs == NewFinalErrors(final_errors, collected)
       IN /\ final_errors' = errs
          /\ lastSeen' = collected
          /\ observed' = observed \cup Range(collected)
          /\ checks' = checks + 1
          /\ rejected' = IF collected # <<>> THEN rejected + 1 ELSE rejected
          /\ IF RejectedWith(errs)
             THEN /\ submission_success' = submission_success
                  /\ pc' = IF RetriesRemain(retry, max_submit_retries)
                           THEN "reverify" ELSE "notify"
             ELSE /\ submission_success' = TRUE
                  /\ pc' = "notify"
    /\ UNCHANGED <<actually_submit, send_email, max_submit_retries,
                   resume_exists, browser, fields, submit_button, idx,
                   fields_filled, total_fields, retry, ret, reports, delivered,
                   reportFresh, staleGapFill, fillCalls, fillTrue, fillFailures,
                   attempts, clicks, verifies, gapFills, quits, extractions,
                   extracted, lastSubmit, lastResponse, exitPath, parsed,
                   selVars, ddVars, fillVars, respVars, domVars, detVars,
                   errVars, loadVars, fbVars, subVars>>

\* Lines 1470-1476 and the next turn of the for loop: verify_fields, then
\* fill_empty_fields when n required fields are empty (its count is dropped).
Reverify(raises, n) ==
    /\ pc = "reverify"
    /\ raises => n = 0
    /\ UsesBrowser
    /\ verifies' = verifies + 1
    /\ IF raises
       THEN Raise /\ UNCHANGED <<gapFills, retry, reportFresh, staleGapFill>>
       ELSE /\ gapFills' = IF n > 0 THEN gapFills + 1 ELSE gapFills
            /\ staleGapFill' = (staleGapFill \/ (n > 0 /\ ~ReplacedReport(reportFresh)))
            /\ reportFresh' = (ReplacedReport(reportFresh) /\ n = 0)
            /\ retry' = retry + 1
            /\ pc' = IF retry + 1 < max_submit_retries
                     THEN IterationStart(retry + 1) ELSE "notify"
            /\ UNCHANGED <<reports, ret, exitPath>>
    /\ Deliver
    /\ UNCHANGED <<actually_submit, send_email, max_submit_retries,
                   resume_exists, browser, fields, submit_button, idx,
                   fields_filled, total_fields, final_errors, submission_success,
                   fillCalls, fillTrue, fillFailures, attempts, clicks, quits,
                   observed, checks, rejected, extractions, extracted, lastSeen,
                   lastSubmit, lastResponse, parsed, selVars, ddVars, fillVars,
                   respVars, domVars, detVars, errVars, loadVars, fbVars, subVars>>

\* Lines 1487-1520: the terminal e-mail and "return submission_success".
Notify ==
    /\ pc = "notify"
    /\ reports' = Notified(
            IF submission_success
            THEN SuccessReport(fields_filled, total_fields)
            ELSE FailureReport(
                    IF final_errors # <<>> THEN Prefix(final_errors, 3)
                                          ELSE <<"Submission unsuccessful">>,
                    fields_filled, total_fields, final_errors))
    /\ ret' = IF submission_success THEN "true" ELSE "false"
    /\ exitPath' = "finished"
    /\ pc' = AfterReturn
    /\ Deliver
    /\ UNCHANGED <<actually_submit, send_email, max_submit_retries,
                   resume_exists, browser, fields, submit_button, idx,
                   fields_filled, total_fields, final_errors, submission_success,
                   retry, reportFresh, staleGapFill, fillCalls, fillTrue,
                   fillFailures, attempts, clicks, verifies, gapFills, quits,
                   opsAfterQuit, observed, checks, rejected, extractions,
                   extracted, lastSeen, lastSubmit, lastResponse, parsed,
                   selVars, ddVars, fillVars, respVars, domVars, detVars,
                   errVars, loadVars, fbVars, subVars>>

\* Lines 1522-1541: "except Exception": failure e-mail, return False.
Handler ==
    /\ pc = "handler"
    /\ reports' = Notified(FailureReport(<<"Unexpected error">>, fields_filled,
                                         total_fields, <<"Unexpected error">>))
    /\ ret' = "false"
    /\ exitPath' = "exception"
    /\ pc' = "finally"
    /\ Deliver
    /\ UNCHANGED <<actually_submit, send_email, max_submit_retries,
                   resume_exists, browser, fields, submit_button, idx,
                   fields_filled, total_fields, final_errors, submission_success,
                   retry, reportFresh, staleGapFill, fillCalls, fillTrue,
                   fillFailures, attempts, clicks, verifies, gapFills, quits,
                   opsAfterQuit, observed, checks, rejected, extractions,
                   extracted, lastSeen, lastSubmit, lastResponse, parsed,
                   selVars, ddVars, fillVars, respVars, domVars, detVars,
                   errVars, loadVars, fbVars, subVars>>

\* Lines 1543-1545: "finally: driver.quit()".
Finally ==
    /\ pc = "finally"
    /\ browser' = "closed"
    /\ quits' = quits + 1
    /\ pc' = "done"
    /\ UNCHANGED <<actually_submit, send_email, max_submit_retries,
                   resume_exists, fields, submit_button, idx, fields_filled,
                   total_fields, final_errors, submission_success, retry, ret,
                   reports, delivered, reportFresh, staleGapFill, fillCalls,
                   fillTrue, fillFailures, attempts, clicks, verifies, gapFills,
                   opsAfterQuit, observed, checks, rejected, extractions,
                   extracted, lastSeen, lastSubmit, lastResponse, exitPath,
                   parsed, selVars, ddVars, fillVars, respVars, domVars, detVars,
                   errVars, loadVars, fbVars, subVars>>

Next ==
    \/ CheckResume
    \/ \E o \in {"data", "empty", "raised"} : ParseResume(o)
    \/ \E o \in {"ok", "raised"} : Initialize(o)
    \/ \E o \in {"ok", "raised"} : Navigate(o)
    \/ \E o \in {"loaded", "nofields", "raised"} : LoadForm(o)
    \/ \E pg \in ExtractPages : ExtractForm(pg)
    \/ \E resp \in LLMResponses : Analyze(resp)
    \/ \E o \in FillOutcomes : FillNext(o)
    \/ \E r \in BOOLEAN : Verify(r)
    \/ \E n \in 0..MaxEmpty, c \in 0..MaxEmpty, r1 \in BOOLEAN, r2 \in BOOLEAN :
            PreSubmit(r1, n, c, r2)
    \/ \E pg \in SubmitPages : Submit(pg)
    \/ \E pg \in ResultPages : Detect(pg)
    \/ \E pg \in ErrorPages : Errors(pg)
    \/ \E r \in BOOLEAN, n \in 0..MaxEmpty : Reverify(r, n)
    \/ Notify
    \/ Handler
    \/ Finally

Spec == Init /\ [][Next]_vars

\* ------------------------------------------ the option matching on its own

\* No controller run: fill_form_from_resume is not entered.
ControllerIdle ==
    /\ pc = "idle"
    /\ actually_submit = FALSE
    /\ send_email = FALSE
    /\ max_submit_retries = 0
    /\ resume_exists = FALSE
    /\ browser = "none"
    /\ fields = <<>>
    /\ submit_button = "empty"
    /\ idx = 1
    /\ fields_filled = 0
    /\ total_fields = 0
    /\ final_errors = <<>>
    /\ submission_success = FALSE
    /\ retry = 0
    /\ ret = "none"
    /\ reports = <<>>
    /\ delivered = <<>>
    /\ reportFresh = FALSE
    /\ staleGapFill = FALSE
    /\ fillCalls = <<>>
    /\ fillTrue = 0
    /\ fillFailures = 0
    /\ attempts = 0
    /\ clicks = 0
    /\ verifies = 0
    /\ gapFills = 0
    /\ quits = 0
    /\ opsAfterQuit = FALSE
    /\ observed = {}
    /\ checks = 0
    /\ rejected = 0
    /\ extractions = 0
    /\ extracted = "none"
    /\ lastSeen = <<>>
    /\ lastSubmit = "none"
    /\ lastResponse = NoResponse
    /\ exitPath = "none"
    /\ parsed = "none"

\* A value, an option list and whether the browser fails, for both matchers.
SelectInit ==
    /\ ControllerIdle
    /\ LoadIdle
    /\ FallbackIdle
    /\ SubmitIdle
    /\ ErrIdle
    /\ DetIdle
    /\ DomIdle
    /\ RespIdle
    /\ DropdownIdle
    /\ FillIdle
    /\ selValue \in Values
    /\ selTexts \in SeqsUpTo(OptionTexts, MaxOptions)
    /\ selRaises \in BOOLEAN
    /\ nativeResult = NotApplied
    /\ customResult = NotApplied

\* fill_any_dropdown on a <select> with these options.
ApplyNative ==
    /\ ~nativeResult.applied
    /\ nativeResult' = NativeSelect(selValue, selTexts, selRaises)
    /\ UNCHANGED <<ctlVars, loadVars, fbVars, subVars, respVars, domVars, detVars, errVars, ddVars, fillVars, selValue, selTexts, selRaises, customResult>>

\* select_from_dropdown on visible option elements with these texts.
ApplyCustom ==
    /\ ~customResult.applied
    /\ customResult' = SelectFromDropdown(selValue, selTexts, selRaises)
    /\ UNCHANGED <<ctlVars, loadVars, fbVars, subVars, respVars, domVars, detVars, errVars, ddVars, fillVars, selValue, selTexts, selRaises, nativeResult>>

SelectNext == ApplyNative \/ ApplyCustom

SpecSelect == SelectInit /\ [][SelectNext]_vars

\* --------------------------------------- the custom dropdown on its own

DropdownInit ==
    /\ ControllerIdle
    /\ LoadIdle
    /\ FallbackIdle
    /\ SubmitIdle
    /\ ErrIdle
    /\ DetIdle
    /\ DomIdle
    /\ RespIdle
    /\ SelectIdle
    /\ FillIdle
    /\ max_retries \in 0..MaxDropRetries
    /\ ddValue \in Values
    /\ attempt = 0
    /\ ddPc = "enter_loop"
    /\ tried = <<>>
    /\ opened = FALSE
    /\ selectCalls = 0
    /\ selectRet = "none"
    /\ ddRet = "none"

\* Lines 641-642 and 725-727: the head of the for loop; "return False" when
\* the rounds are used up.
LoopHead ==
    /\ ddPc = "enter_loop"
    /\ IF RoundDue(attempt, max_retries)
       THEN ddPc' = "direct" /\ ddRet' = ddRet
       ELSE ddPc' = "returned" /\ ddRet' = "false"
    /\ UNCHANGED <<ctlVars, loadVars, fbVars, subVars, respVars, domVars, detVars, errVars, selVars, fillVars, max_retries, attempt, ddValue, tried,
                   opened, selectCalls, selectRet>>

\* Lines 644-722: one opener step; when it reveals visible options,
\* select_from_dropdown is called on them and its result returned.
OpenerStep(step, outcome, visible, raises) ==
    /\ ddPc = step
    /\ outcome # "open" => visible = <<"-","-">> /\ ~raises
    /\ tried' = Append(tried, step)
    /\ IF outcome = "open"
       THEN LET r == SelectFromDropdown(ddValue, <<visible>>, raises)
                next == IF step = "js" THEN "enter_loop" ELSE StepAfter(step, outcome)
            IN  /\ opened' = TRUE
                /\ selectCalls' = selectCalls + 1
                /\ selectRet' = IF r.ret THEN "true" ELSE "false"
                /\ ddPc' = RevealedNext(next)
                /\ ddRet' = IF ddPc' = "returned" THEN selectRet' ELSE ddRet
                /\ attempt' = IF step = "js" /\ ddPc' # "returned"
                              THEN attempt + 1 ELSE attempt
       ELSE /\ UNCHANGED <<opened, selectCalls, selectRet, ddRet>>
            /\ ddPc' = IF step = "js" THEN "enter_loop" ELSE StepAfter(step, outcome)
            /\ attempt' = IF step = "js" THEN attempt + 1 ELSE attempt
    /\ UNCHANGED <<ctlVars, loadVars, fbVars, subVars, respVars, domVars, detVars, errVars, selVars, fillVars, max_retries, ddValue>>

DropdownNext ==
    \/ LoopHead
    \/ \E i \in DOMAIN OpenerSteps, outcome \in StepOutcomes,
          visible \in OptionTexts, raises \in BOOLEAN :
            OpenerStep(OpenerSteps[i], outcome, visible, raises)

\* The call is sequential code with bounded sleeps: a step that can be taken
\* is taken.
SpecDropdown == DropdownInit /\ [][DropdownNext]_vars /\ WF_vars(DropdownNext)

\* ------------------------------------------------- fill_field on its own

FillInit ==
    /\ ControllerIdle
    /\ LoadIdle
    /\ FallbackIdle
    /\ SubmitIdle
    /\ ErrIdle
    /\ DetIdle
    /\ DomIdle
    /\ RespIdle
    /\ SelectIdle
    /\ DropdownIdle
    /\ action \in Actions
    /\ field_type \in FieldTypes
    /\ fvalue \in FieldValues
    /\ label \in Labels
    /\ resume_path \in {NoPath, "resume.pdf"}
    /\ cover_letter_path \in {NoPath, "cover.pdf"}
    /\ resumeOnDisk \in BOOLEAN
    /\ coverOnDisk \in BOOLEAN
    /\ resume_path = NoPath => ~resumeOnDisk
    /\ cover_letter_path = NoPath => ~coverOnDisk
    /\ element \in Elements
    /\ checked \in BOOLEAN
    /\ element.type # "checkbox" => ~checked
    /\ lastCall = "none"
    /\ uploadValue = Raw("")
    /\ sent = {}
    /\ fret = FALSE
    /\ ran = {}
    /\ unchecked = FALSE

\* os.path.exists(value) for the value of a field; rawOnDisk: a text of the
\* LLM happens to name a file.
OnDisk(v, rawOnDisk) ==
    IF v.abs
    THEN \/ v.text = resume_path /\ resumeOnDisk
         \/ v.text = cover_letter_path /\ coverOnDisk
    ELSE rawOnDisk

\* What a call did to the checkbox is noted in "unchecked".
NoteChecked ==
    unchecked' = (unchecked \/ (element.type = "checkbox" /\ checked /\ ~checked'))

\* fill_field, lines 799-986.
\*   raises     a browser call of the branch taken raises (caught: False)
\*   rawOnDisk  see OnDisk
\*   oddClicks  the opener of fill_any_dropdown, whose first strategy is a
\*              script click on the element itself, clicked the element an
\*              odd number of times; for the upload branch: the keys sent
\*              hold an odd number of spaces
\*   dret       what fill_any_dropdown returned
FillFieldCall(raises, rawOnDisk, oddClicks, dret) ==
    /\ lastCall' = "fill_field"
    /\ LET res == ResolveUpload(action, field_type, fvalue, label,
                                resume_path, cover_letter_path)
           value == res.value
           h == FirstHandler(element, action)
       IN  IF res.raised
           THEN /\ ~raises /\ ~rawOnDisk /\ ~oddClicks /\ ~dret
                /\ uploadValue' = Raw("")
                /\ ran' = {}
                /\ sent' = {} /\ fret' = FALSE /\ checked' = checked
           ELSE /\ uploadValue' = value
                /\ IF element = NoElement
                   THEN /\ ~raises /\ ~rawOnDisk /\ ~oddClicks /\ ~dret
                        /\ ran' = {}
                        /\ sent' = {} /\ fret' = FALSE /\ checked' = checked
                   ELSE /\ ran' = HandlersRun(element, action)
                        /\ CASE h = "upload" ->
                                /\ ~dret
                                /\ value.abs => ~rawOnDisk
                                /\ IF UploadRefused(value, OnDisk(value, rawOnDisk))
                                   THEN /\ ~raises /\ ~oddClicks
                                        /\ sent' = {} /\ fret' = FALSE /\ checked' = checked
                                   ELSE /\ sent' \in (IF raises THEN {{}, {value}}
                                                      ELSE {{value}})
                                        /\ fret' = ~raises
                                        /\ oddClicks => element.type = "checkbox"
                                        /\ checked' = Toggle(checked, oddClicks)
                             [] h = "dropdown" ->
                                /\ ~raises /\ ~rawOnDisk
                                /\ oddClicks => element.type = "checkbox"
                                /\ sent' = {} /\ fret' = dret
                                /\ checked' = Toggle(checked, oddClicks)
                             [] h = "checkbox" ->
                                /\ ~rawOnDisk /\ ~oddClicks /\ ~dret
                                /\ sent' = {} /\ fret' = ~raises
                                /\ checked' = IF raises THEN checked ELSE TRUE
                             [] h = "radio" ->
                                /\ ~rawOnDisk /\ ~oddClicks /\ ~dret
                                /\ sent' = {} /\ fret' = ~raises /\ checked' = checked
                             [] OTHER ->
                                /\ ~rawOnDisk /\ ~oddClicks /\ ~dret
                                /\ sent' = IF raises THEN {}
                                           ELSE IF EmptyValue(value) THEN {Raw(DefaultText(h))}
                                           ELSE {value}
                                /\ fret' = ~raises /\ checked' = checked
    /\ NoteChecked
    /\ UNCHANGED <<ctlVars, loadVars, fbVars, subVars, respVars, domVars, detVars, errVars, selVars, ddVars, fieldVars>>

\* fill_empty_fields for this field, lines 1147-1186: the label lookup finds
\* the element when it is a select or an input (or not: "continue"); its
\* result is a count and is not kept.
FillEmptyCall(raises, oddClicks, dret) ==
    /\ lastCall' = "fill_empty_fields"
    /\ IF element.tag \notin {"select", "input"} \/ raises
       THEN /\ ~oddClicks /\ ~dret
            /\ sent' = {} /\ checked' = checked
       ELSE IF IsDropdownForGapFill(element)
       THEN /\ oddClicks => element.type = "checkbox"
            /\ sent' = {}
            /\ checked' = IF ~dret /\ element.type = "checkbox"
                          THEN TRUE ELSE Toggle(checked, oddClicks)
       ELSE IF element.type = "checkbox"
       THEN /\ ~oddClicks /\ ~dret
            /\ sent' = {} /\ checked' = TRUE
       ELSE IF element.type = "text"
       THEN /\ ~oddClicks /\ ~dret
            /\ sent' = {Raw("fallback")} /\ checked' = checked
       ELSE /\ ~oddClicks /\ ~dret
            /\ sent' = {} /\ checked' = checked
    /\ NoteChecked
    /\ UNCHANGED <<ctlVars, loadVars, fbVars, subVars, respVars, domVars, detVars, errVars, selVars, ddVars,
                   fieldVars, uploadValue, fret, ran>>

FillNextStep ==
    \/ \E raises, rawOnDisk, oddClicks, dret \in BOOLEAN :
            FillFieldCall(raises, rawOnDisk, oddClicks, dret)
    \/ \E raises, oddClicks, dret \in BOOLEAN : FillEmptyCall(raises, oddClicks, dret)

SpecFill == FillInit /\ [][FillNextStep]_vars

\* ------------------------------- extraction and verification on their own

\* A page with its controls.
DomInit ==
    /\ ControllerIdle
    /\ LoadIdle
    /\ FallbackIdle
    /\ SubmitIdle
    /\ ErrIdle
    /\ DetIdle
    /\ SelectIdle
    /\ DropdownIdle
    /\ FillIdle
    /\ RespIdle
    /\ controls \in ControlLists
    /\ form_data = NotExtracted
    /\ form_text = <<>>
    /\ verification = NotVerified

\* extract_form_structure: the script of lines 435-495 on the page and
\* format_for_llm on its result; "broken" are the controls whose label holds
\* a line break.
ExtractCall(broken) ==
    /\ ~form_data.done
    /\ broken \subseteq {i \in DOMAIN controls : ExtractField(controls[i])}
    /\ form_data' = ExtractFormScript(controls)
    /\ form_text' = FormatFields(form_data', broken)
    /\ UNCHANGED <<ctlVars, loadVars, fbVars, subVars, selVars, ddVars, fillVars, respVars, detVars, errVars,
                   controls, verification>>

\* verify_fields: the script of lines 1052-1066 on the page.
VerifyCall ==
    /\ ~verification.done
    /\ verification' = VerifyFields(controls)
    /\ UNCHANGED <<ctlVars, loadVars, fbVars, subVars, selVars, ddVars, fillVars, respVars, detVars, errVars,
                   controls, form_data, form_text>>

DomNext ==
    \/ \E broken \in SUBSET (1..MaxControls) : ExtractCall(broken)
    \/ VerifyCall

SpecDom == DomInit /\ [][DomNext]_vars

\* ------------------------------------- the classification on its own

\* The page after a submit click.
DetInit ==
    /\ ControllerIdle
    /\ LoadIdle
    /\ FallbackIdle
    /\ SubmitIdle
    /\ ErrIdle
    /\ SelectIdle
    /\ DropdownIdle
    /\ FillIdle
    /\ RespIdle
    /\ DomIdle
    /\ page_text \in PageTexts
    /\ current_url \in PageUrls
    /\ readRaises \in {"none", "body", "url"}
    /\ errorsShown \in BOOLEAN
    /\ classified = NotClassified

\* Lines 1456-1483 for this page.
ClassifyCall ==
    /\ ~classified.done
    /\ classified' = ClassifyAttempt(page_text, current_url, readRaises, errorsShown)
    /\ UNCHANGED <<ctlVars, loadVars, fbVars, subVars, selVars, ddVars, fillVars, respVars, domVars, errVars,
                   page_text, current_url, readRaises, errorsShown>>

DetNext == ClassifyCall

SpecDet == DetInit /\ [][DetNext]_vars

\* ----------------------------------------------- check_errors on its own

\* A page with the elements its error selectors match.
ErrInit ==
    /\ ControllerIdle
    /\ LoadIdle
    /\ FallbackIdle
    /\ SubmitIdle
    /\ SelectIdle
    /\ DropdownIdle
    /\ FillIdle
    /\ RespIdle
    /\ DomIdle
    /\ DetIdle
    /\ errorPage \in ScannedPages
    /\ scan = NotScanned

\* check_errors(driver) on this page.
ScanCall ==
    /\ ~scan.done
    /\ scan' = [done |-> TRUE, errors |-> CheckErrors(errorPage)]
    /\ UNCHANGED <<ctlVars, loadVars, fbVars, subVars, selVars, ddVars, fillVars, respVars, domVars, detVars,
                   errorPage>>

ErrNext == ScanCall

SpecErr == ErrInit /\ [][ErrNext]_vars

\* --------------------------------------------- attempt_submit on its own

\* A page and the submit button of the analysis.
SubmitInit ==
    /\ ControllerIdle
    /\ LoadIdle
    /\ FallbackIdle
    /\ SelectIdle
    /\ DropdownIdle
    /\ FillIdle
    /\ RespIdle
    /\ DomIdle
    /\ DetIdle
    /\ ErrIdle
    /\ submit_info \in {"empty", "selector", "nondict"}
    /\ submitPage \in SubmitSearches
    /\ submitted = NotSubmitted

\* attempt_submit(driver, submit_info) on this page.
SubmitCall ==
    /\ ~submitted.done
    /\ submitted' = AttemptSubmitOn(submit_info, submitPage)
    /\ UNCHANGED <<ctlVars, loadVars, fbVars, selVars, ddVars, fillVars, respVars, domVars, detVars,
                   errVars, submit_info, submitPage>>

SubmitNext == SubmitCall

SpecSubmit == SubmitInit /\ [][SubmitNext]_vars

\* ------------------------------------------ generate_fallback on its own

\* A label and a widget type.
FallbackInit ==
    /\ ControllerIdle
    /\ LoadIdle
    /\ SubmitIdle
    /\ SelectIdle
    /\ DropdownIdle
    /\ FillIdle
    /\ RespIdle
    /\ DomIdle
    /\ DetIdle
    /\ ErrIdle
    /\ fbLabel \in FallbackLabels
    /\ fbType \in FallbackTypes
    /\ fbValue = NoFallback

\* generate_fallback(label, field_type).
FallbackCall ==
    /\ fbValue = NoFallback
    /\ fbValue' \in GenerateFallback(fbLabel, fbType)
    /\ UNCHANGED <<ctlVars, loadVars, subVars, selVars, ddVars, fillVars, respVars, domVars,
                   detVars, errVars, fbLabel, fbType>>

FallbackNext == FallbackCall

SpecFallback == FallbackInit /\ [][FallbackNext]_vars

\* -------------------------------------------- smart_load_form on its own

\* The page after click_apply_button, which may have scrolled it.
LoadInit ==
    /\ ControllerIdle
    /\ SubmitIdle
    /\ FallbackIdle
    /\ SelectIdle
    /\ DropdownIdle
    /\ FillIdle
    /\ RespIdle
    /\ DomIdle
    /\ DetIdle
    /\ ErrIdle
    /\ loadPc = "start"
    /\ scrollPos \in {"top", "elsewhere"}
    /\ startPos = scrollPos
    /\ scrolls = 0
    /\ seen = <<>>
    /\ loadRet = "none"

\* Lines 1014-1019: the first scan; five visible fields end the call.
InitialScan(n, raises) ==
    /\ loadPc = "start"
    /\ IF raises
       THEN /\ n = 0
            /\ loadPc' = "raised"
            /\ UNCHANGED <<seen, loadRet>>
       ELSE /\ seen' = <<n>>
            /\ IF n >= EnoughAtStart
               THEN loadPc' = "done" /\ loadRet' = "true"
               ELSE loadPc' = "loop" /\ loadRet' = loadRet
    /\ UNCHANGED <<ctlVars, subVars, fbVars, selVars, ddVars, fillVars, respVars,
                   domVars, detVars, errVars, scrollPos, startPos, scrolls>>

\* Lines 1021-1027: one turn of the loop, a scroll to the bottom and a scan;
\* "raises" says which of the two driver calls raises, if any.
ScrollAndScan(n, raises) ==
    /\ loadPc = "loop"
    /\ CASE raises = "scroll" ->
             /\ n = 0
             /\ loadPc' = "raised"
             /\ UNCHANGED <<scrollPos, scrolls, seen>>
         [] raises = "scan" ->
             /\ n = 0
             /\ loadPc' = "raised"
             /\ scrollPos' = "bottom"
             /\ scrolls' = scrolls + 1
             /\ seen' = seen
         [] OTHER ->
             /\ scrollPos' = "bottom"
             /\ scrolls' = scrolls + 1
             /\ seen' = Append(seen, n)
             /\ loadPc' = IF LoopContinues(scrolls + 1, n) THEN "loop" ELSE "restore"
    /\ UNCHANGED <<ctlVars, subVars, fbVars, selVars, ddVars, fillVars, respVars,
                   domVars, detVars, errVars, startPos, loadRet>>

\* Lines 1029-1032: back to the top, and the result.
RestoreTop(raises) ==
    /\ loadPc = "restore"
    /\ IF raises
       THEN loadPc' = "raised" /\ UNCHANGED <<scrollPos, loadRet>>
       ELSE /\ scrollPos' = "top"
            /\ loadPc' = "done"
            /\ loadRet' = IF seen[Len(seen)] > 0 THEN "true" ELSE "false"
    /\ UNCHANGED <<ctlVars, subVars, fbVars, selVars, ddVars, fillVars, respVars,
                   domVars, detVars, errVars, startPos, scrolls, seen>>

LoadNext ==
    \/ \E n \in FieldCounts, raises \in BOOLEAN : InitialScan(n, raises)
    \/ \E n \in FieldCounts, raises \in {"none", "scroll", "scan"} : ScrollAndScan(n, raises)
    \/ \E raises \in BOOLEAN : RestoreTop(raises)

\* The calls of the driver return: the function goes on while it has a step.
SpecLoad == LoadInit /\ [][LoadNext]_vars /\ WF_vars(LoadNext)

\* ================================================================== claims

\* ----------------------------------------------- analyze_form on its own

\* A response text and the resume data of one analyze_form call.
RespInit ==
    /\ ControllerIdle
    /\ LoadIdle
    /\ FallbackIdle
    /\ SubmitIdle
    /\ ErrIdle
    /\ DetIdle
    /\ DomIdle
    /\ SelectIdle
    /\ DropdownIdle
    /\ FillIdle
    /\ llmText \in ResponseTexts
    /\ resume_data \in ResumeDatas
    /\ analyzed = NotAnalyzed

\* Lines 564-581: strip the fences, search the object, load it, replace the
\* marker values, return.
AnalyzeResponse ==
    /\ ~analyzed.done
    /\ analyzed' = AnalyzeText(llmText, resume_data)
    /\ UNCHANGED <<ctlVars, loadVars, fbVars, subVars, selVars, ddVars, fillVars, domVars, detVars, errVars,
                   llmText, resume_data>>

RespNext == AnalyzeResponse

SpecResp == RespInit /\ [][RespNext]_vars

Terminated == pc = "done"

\* The run went through the code after the submission loop (no early abort,
\* no exception).
LoopFinished == Terminated /\ exitPath = "finished"

\* The one report of a run that sent exactly one.
TheReport == reports[1]

OneFailureReport ==
    send_email => Len(reports) = 1 /\ ~TheReport.success

C2_UnionReported ==
    (LoopFinished /\ send_email /\ max_submit_retries > 0 /\ rejected = max_submit_retries)
        => observed \subseteq Range(TheReport.errors)

\* C2 (amended): when the retry budget is exhausted by rejected submissions,
\* the terminal report is one failure report whose error list is the list
\* check_errors returned in the last attempt; its message joins the first three.
C2_LastAttemptReported ==
    (LoopFinished /\ send_email /\ max_submit_retries > 0 /\ rejected = max_submit_retries)
        => /\ Len(reports) = 1
           /\ ~TheReport.success
           /\ TheReport.errors = lastSeen
           /\ TheReport.message = Prefix(lastSeen, 3)

C2_Witness ==
    /\ LoopFinished /\ send_email
    /\ max_submit_retries >= 2 /\ rejected = max_submit_retries
    /\ ~(observed \subseteq Range(lastSeen))

\* ---- C3
\* C3: in every run the number of submit clicks is at most max_submit_retries,
\* and once an attempt is classified as success there is no further
\* attempt_submit call, submit click, verify_fields call or fill_empty_fields
\* call.
C3_ClicksBoundedAndQuietAfterSuccess ==
    /\ [](clicks <= max_submit_retries /\ attempts <= max_submit_retries)
    /\ [][submission_success =>
            /\ attempts' = attempts /\ clicks' = clicks
            /\ verifies' = verifies /\ gapFills' = gapFills
            /\ submission_success']_vars

C3_Witness ==
    /\ Terminated /\ submission_success
    /\ clicks >= 1 /\ clicks < max_submit_retries

\* ---- C4
\* C4: when attempt_submit returns false the loop is left at once: no further
\* attempt_submit call, click, verify_fields or fill_empty_fields call happens
\* although retries remain, and the run ends in failure with the
\* submit-control-not-found error in its error list (and in its report).
C4_NoSubmitControlAborts ==
    /\ [][lastSubmit = "false" =>
            /\ attempts' = attempts /\ clicks' = clicks
            /\ verifies' = verifies /\ gapFills' = gapFills
            /\ checks' = checks /\ lastSubmit' = "false"
            /\ pc' \in {"notify", "finally", "done"}]_vars
    /\ []((Terminated /\ lastSubmit = "false") =>
            /\ ~submission_success /\ ret = "false"
            /\ \E i \in DOMAIN final_errors : final_errors[i] = NoSubmitError
            /\ OneFailureReport
            /\ send_email => \E i \in DOMAIN TheReport.errors :
                                    TheReport.errors[i] = NoSubmitError)

C4_Witness ==
    /\ Terminated /\ lastSubmit = "false" /\ send_email
    /\ attempts >= 1 /\ attempts < max_submit_retries

\* ---- C5
\* C5: when a submit click was followed by no detected success and by an empty
\* check_errors result, the attempt counts as success: submission_success is
\* true, the loop is over, and the run returns True with a success report.
C5_AmbiguousIsSuccess ==
    (checks > 0 /\ lastSeen = <<>>)
        => /\ submission_success
           /\ pc \in {"notify", "finally", "done"}
           /\ Terminated =>
                /\ ret = "true"
                /\ send_email => Len(reports) = 1 /\ TheReport.success

C5_Witness ==
    Terminated /\ checks > 0 /\ lastSeen = <<>> /\ lastSubmit = "true" /\ send_email

\* ---- C6
\* C6: on every exit path taken after get_driver returned the browser, the
\* browser is closed by exactly one driver.quit() call, and no browser
\* operation is issued on the closed browser.
C6_BrowserReleasedOnce ==
    /\ quits <= 1
    /\ ~opsAfterQuit
    /\ (browser = "closed") = (quits = 1)
    /\ browser = "closed" => Terminated
    /\ (Terminated /\ browser # "none") => browser = "closed"

C6_Witness ==
    /\ Terminated /\ quits = 1 /\ browser = "closed"
    /\ exitPath \in {"no_form", "exception"}

\* ---- C7
\* C7 (as claimed): every run with notifications enabled has sent exactly one
\* terminal report when it ends, whatever the exit path.
C7_ExactlyOneReport ==
    (Terminated /\ send_email) => Len(reports) = 1

\* ---- C8
\* The response holds a parseable JSON object whose "fields" entry is a list
\* of objects.
RequiredStructure(resp) ==
    /\ resp.shape = "object"
    /\ resp.fkind = "list"
    /\ \A i \in DOMAIN resp.flist : resp.flist[i] = "dict"

MappingFailed == lastResponse # NoResponse /\ ~RequiredStructure(lastResponse)

\* What follows a mapping failure in the pipeline: no fill_field call, no
\* submit attempt or click, and a failure is reported.
MappingFailureIsFatal ==
    /\ fields = <<>> /\ total_fields = 0
    /\ fillCalls = <<>> /\ attempts = 0 /\ clicks = 0
    /\ pc \in {"finally", "done"}
    /\ exitPath = "no_fields" /\ ret = "false"
    /\ OneFailureReport

\* C8 (as claimed): when the LLM response holds no parseable JSON object of
\* the required structure, analyze_form returns an empty field list and an
\* empty submit-button identity, and the page is a fatal mapping failure.
C8_EmptyResultOnMappingFailure ==
    MappingFailed => submit_button = "empty" /\ MappingFailureIsFatal

\* C8 (amended): on such a response analyze_form returns an empty field list,
\* and the page is a fatal mapping failure; the submit-button identity it
\* returns is empty too unless the response was a parseable JSON object
\* without a usable "fields" entry, whose "submit_button" is returned as given.
C8_MappingFailureIsFatal ==
    MappingFailed =>
        /\ MappingFailureIsFatal
        /\ (lastResponse.shape # "object" \/ FieldLoopRaises(lastResponse))
                => submit_button = "empty"
        /\ (lastResponse.shape = "object" /\ ~FieldLoopRaises(lastResponse))
                => submit_button = GetSubmitButton(lastResponse)

C8_Witness ==
    /\ Terminated /\ send_email
    /\ lastResponse.shape = "object" /\ lastResponse.fkind = "list"
    /\ lastResponse.flist # <<>> /\ ~RequiredStructure(lastResponse)
    /\ lastResponse.submit = "selector"

\* ---- C9
\* C9: when the extraction meets no form field and no standalone field, the
\* page is aborted: analyze_form is not called, no field is filled, nothing is
\* submitted, the page is not extracted again, and a failure is reported.
C9_NoFormAborts ==
    extracted = "nothing" =>
        /\ lastResponse = NoResponse
        /\ fillCalls = <<>> /\ attempts = 0 /\ clicks = 0
        /\ verifies = 0 /\ gapFills = 0
        /\ extractions = 1
        /\ pc \in {"finally", "done"}
        /\ exitPath = "no_form" /\ ret = "false"
        /\ OneFailureReport

C9_Witness == Terminated /\ extracted = "nothing" /\ send_email /\ browser = "closed"

\* ---- C10
\* C10: fill_field returns False whenever an error occurred inside it and
\* raises nothing; the controller calls it once per mapped field, in list
\* order, whatever the earlier calls returned; after the fill loop
\* fields_filled is the number of calls that returned True.
C10_FillLoopFaithful ==
    /\ \A i \in DOMAIN fillCalls : fillCalls[i] = i
    /\ Len(fillCalls) <= Len(fields)
    /\ fillTrue + fillFailures = Len(fillCalls)
    /\ (fields # <<>> /\ pc # "fill") => Len(fillCalls) = Len(fields)
    /\ pc \in {"fill", "verify"} => fields_filled = fillTrue

C10_Witness ==
    /\ pc = "verify"
    /\ Len(fillCalls) >= 2 /\ fillFailures >= 1 /\ fillTrue >= 1

\* ---- C11
\* The five strategies of a round, each named by its first step.
RoundOfStrategies == <<"direct", "parent", "arrow", "space", "js">>

\* n rounds of all five strategies.
Rounds(n) == [i \in 1..(5 * n) |-> RoundOfStrategies[((i - 1) % 5) + 1]]

NotEnter(step) == step # "enter"

\* The strategies tried, in order: the steps without the second half of the
\* keyboard strategy.
StrategiesTried == SelectSeq(tried, NotEnter)

DropdownReturned == ddPc = "returned"

\* C11: on a custom dropdown for which no visible option / listitem element
\* ever appears, fill_any_dropdown performs exactly max_retries rounds, each
\* trying all five strategies, then returns False without ever calling
\* select_from_dropdown; the call returns for every max_retries >= 0.
C11_OpenerGivesUp ==
    /\ []((DropdownReturned /\ ~opened) =>
            /\ StrategiesTried = Rounds(max_retries)
            /\ ddRet = "false")
    /\ [](~opened => selectCalls = 0)
    /\ <>DropdownReturned

C11_Witness ==
    /\ DropdownReturned /\ ~opened
    /\ max_retries >= 2
    /\ Len(tried) > Len(StrategiesTried)

\* ---- C12
\* The step that may follow a step inside a call: the code order direct click,
\* parent click, arrow click, SPACE, ENTER, pointer events, and round again.
MayFollow(a, b) ==
    \/ a = "direct" /\ b = "parent"
    \/ a = "parent" /\ b = "arrow"
    \/ a = "arrow" /\ b = "space"
    \/ a = "space" /\ b \in {"enter", "js"}
    \/ a = "enter" /\ b = "js"
    \/ a = "js" /\ b = "direct"

\* C12: the opener tries its steps in the fixed order; as soon as one step
\* reveals a visible option, select_from_dropdown is called once and its
\* result is returned, also when it is False, and no later step and no later
\* round is executed.
C12_FirstRevealWins ==
    /\ [](/\ tried # <<>> => tried[1] = "direct"
          /\ \A i \in 1..(Len(tried) - 1) : MayFollow(tried[i], tried[i + 1]))
    /\ [](opened =>
            /\ DropdownReturned
            /\ selectCalls = 1
            /\ ddRet = selectRet)
    /\ [][opened => UNCHANGED ddVars]_vars

C12_Witness ==
    /\ opened /\ DropdownReturned
    /\ ddRet = "false"
    /\ Len(tried) >= 2
    /\ attempt + 1 < max_retries

\* ---- C13
\* The option list as both matchers read it, and the positions that match the
\* target in the ways the claims speak of.
SelOptions == [i \in DOMAIN selTexts |-> Strip(selTexts[i])]

IsPlaceholder(t) == Lower(t) \in PlaceholderTexts

SelNonPlaceholder == {i \in DOMAIN SelOptions : ~IsPlaceholder(SelOptions[i])}

SelExact ==
    {i \in DOMAIN SelOptions : Lower(SelOptions[i]) = Lower(selValue.text)}

\* The target is contained in the option text.
SelTargetInOption ==
    {i \in DOMAIN SelOptions : Contains(Lower(selValue.text), Lower(SelOptions[i]))}

\* The option text is contained in the target.
SelOptionInTarget ==
    {i \in DOMAIN SelOptions : Contains(Lower(SelOptions[i]), Lower(selValue.text))}

BothApplied == nativeResult.applied /\ customResult.applied /\ ~selRaises

\* C13 (as claimed): for every target value and every list of option texts the
\* native-select matching and select_from_dropdown choose the option at the
\* same position, or both choose none.
C13_SameChoice ==
    BothApplied =>
        /\ nativeResult.chosen = customResult.chosen
        /\ nativeResult.ret = customResult.ret

\* ---- C14
\* C14 (as claimed): the native matching selects the first exact
\* case-insensitive match; else the first option that contains the target or
\* is contained in it; else, when no target was given, the first
\* non-placeholder option; else the option at index 1.
C14_ClaimedPrecedence ==
    (nativeResult.applied /\ ~selRaises /\ ~selValue.none) =>
        nativeResult.chosen =
            IF SelExact # {} THEN First(SelExact)
            ELSE IF SelTargetInOption \cup SelOptionInTarget # {}
                 THEN First(SelTargetInOption \cup SelOptionInTarget)
            ELSE IF selValue.text = <<>> /\ SelNonPlaceholder # {}
                 THEN First(SelNonPlaceholder)
            ELSE IF Len(selTexts) > 1 THEN 2
            ELSE 0

\* C14 (amended): when no target value is given the native matching selects
\* the first non-placeholder option, or the option at index 1 when every
\* option is a placeholder and there are at least two; in every other case it
\* selects the first exact case-insensitive match, else the first option whose
\* text contains the target, else the first non-placeholder option, else
\* nothing (and returns False).
C14_NativePrecedence ==
    (nativeResult.applied /\ ~selRaises) =>
        /\ nativeResult.ret = (nativeResult.chosen # 0)
        /\ nativeResult.chosen =
                IF Falsy(selValue) /\ SelNonPlaceholder # {} THEN First(SelNonPlaceholder)
                ELSE IF Falsy(selValue) /\ Len(selTexts) > 1 THEN 2
                ELSE IF selValue.none THEN 0
                ELSE IF SelExact # {} THEN First(SelExact)
                ELSE IF SelTargetInOption # {} THEN First(SelTargetInOption)
                ELSE IF SelNonPlaceholder # {} THEN First(SelNonPlaceholder)
                ELSE 0

\* A target that some option is contained in, but that no option contains or
\* equals: the native matching falls back to the first non-placeholder.
C14_Witness ==
    /\ nativeResult.applied /\ ~selRaises /\ ~Falsy(selValue)
    /\ SelExact = {} /\ SelTargetInOption = {}
    /\ \E i \in SelOptionInTarget : SelOptions[i] # <<>> /\ i # nativeResult.chosen
    /\ nativeResult.chosen = First(SelNonPlaceholder)

\* ---- C15
\* ["Select...", "United States", "Canada"] and "usa"
UsaCase ==
    /\ selTexts = << <<"S","e","l","e","c","t",".",".",".">>,
                     <<"U","n","i","t","e","d"," ","S","t","a","t","e","s">>,
                     <<"C","a","n","a","d","a">> >>
    /\ selValue = StrValue(<<"u","s","a">>)
    /\ nativeResult.applied /\ ~selRaises

\* C15 (as claimed): for these options and this target the native matching
\* returns True and selects "United States" (position 2), which it reaches by
\* its substring / case-insensitive matching step.
C15_UsaBySubstring ==
    UsaCase =>
        /\ nativeResult.ret /\ nativeResult.chosen = 2
        /\ 2 \in SelExact \cup SelTargetInOption \cup SelOptionInTarget

\* C15 (amended): for these options and this target the native matching
\* returns True and selects "United States", not the placeholder; no option
\* equals or contains "usa", and "United States" is selected as the first
\* non-placeholder option (the fallback step).
C15_UsaByFallback ==
    UsaCase =>
        /\ nativeResult.ret /\ nativeResult.chosen = 2
        /\ ~IsPlaceholder(SelOptions[nativeResult.chosen])
        /\ SelExact \cup SelTargetInOption = {}
        /\ First(SelNonPlaceholder) = 2

C15_Witness == UsaCase /\ nativeResult.chosen = 2

\* ---- C16
\* C16 (as claimed): neither the native matching nor select_from_dropdown ever
\* selects an option whose text is a placeholder, whatever the target value.
C16_PlaceholderNeverSelected ==
    /\ (nativeResult.applied /\ nativeResult.chosen # 0)
            => ~IsPlaceholder(SelOptions[nativeResult.chosen])
    /\ (customResult.applied /\ customResult.chosen # 0)
            => ~IsPlaceholder(SelOptions[customResult.chosen])

\* ---- C17
\* C17 (as claimed): whatever the mapped action and the class or role of the
\* element, no fill_field or fill_empty_fields call leaves a checkbox
\* unchecked that was checked before the call.
C17_CheckedStaysChecked == ~unchecked

\* ---- C18
FilledAsResumeUpload ==
    lastCall = "fill_field" /\ action = "upload" /\ fvalue = "RESUME_FILE"

\* C18: for a field with action upload and value "RESUME_FILE", fill_field
\* uses abspath(resume_path) as the upload value, and when that path does not
\* exist on disk it returns False and sends nothing to the element.
C18_ResumeUploadPath ==
    FilledAsResumeUpload =>
        /\ resume_path # NoPath => uploadValue = Abspath(resume_path)
        /\ sent \subseteq {Abspath(resume_path)}
        /\ ~resumeOnDisk => ~fret /\ sent = {}

C18_Witness ==
    /\ FilledAsResumeUpload
    /\ element.type = "file"
    /\ resume_path # NoPath /\ ~resumeOnDisk
    /\ ~fret /\ sent = {}

\* ---- C19
\* The absolute paths of the files supplied to the call.
SuppliedFiles ==
    {Abspath(p) : p \in {resume_path, cover_letter_path} \ {NoPath}}

FilledAsUpload ==
    lastCall = "fill_field" /\ (field_type = "file" \/ action = "upload")

\* C19: for a field whose type is file or whose action is upload, whatever
\* value and label the LLM gave, the value fill_field works with and sends is
\* abspath(resume_path) or abspath(cover_letter_path) (the latter only when a
\* cover-letter path was supplied), never a sentinel, an empty string or the
\* text of the LLM; when the path to use is None nothing is sent.
C19_UploadValueIsSuppliedFile ==
    FilledAsUpload =>
        /\ sent \subseteq SuppliedFiles
        /\ \/ uploadValue \in SuppliedFiles /\ sent \subseteq {uploadValue}
           \/ /\ NoPath \in {resume_path, cover_letter_path}
              /\ uploadValue = Raw("") /\ sent = {} /\ ~fret

C19_Witness ==
    /\ FilledAsUpload
    /\ field_type = "file" /\ action = "type" /\ fvalue = "USE_MAPPER"
    /\ sent = {Abspath(resume_path)} /\ fret

\* ---- C20
CoverSuggested == cover_letter_path # NoPath /\ LabelNamesCover(label)

\* C20 (as claimed): for a file-upload field, the cover-letter file is chosen
\* when a cover-letter path is supplied and the label contains "cover" or
\* "letter", regardless of the value; otherwise the resume file is chosen.
C20_CoverByLabelOnly ==
    (FilledAsUpload /\ resume_path # NoPath) =>
        uploadValue = IF CoverSuggested THEN Abspath(cover_letter_path)
                      ELSE Abspath(resume_path)

\* C20 (amended): the resume file is chosen when the value is "RESUME_FILE"
\* or the label contains "resume"; otherwise the cover-letter file is chosen
\* when a cover-letter path is supplied and the value is "COVER_LETTER_FILE"
\* or the label contains "cover" or "letter"; otherwise the resume file.
C20_ResumeFirstThenCover ==
    (FilledAsUpload /\ resume_path # NoPath) =>
        uploadValue =
            IF fvalue = "RESUME_FILE" \/ LabelNamesResume(label)
            THEN Abspath(resume_path)
            ELSE IF cover_letter_path # NoPath
                    /\ (fvalue = "COVER_LETTER_FILE" \/ LabelNamesCover(label))
            THEN Abspath(cover_letter_path)
            ELSE Abspath(resume_path)

C20_Witness ==
    /\ FilledAsUpload /\ resume_path # NoPath
    /\ CoverSuggested /\ fvalue = "RESUME_FILE"
    /\ uploadValue = Abspath(resume_path)

\* The fields of the object json.loads returned, before the replacement.
FieldsAsLoaded == LoadedFields(analyzed.loaded)

\* The loaded object has the required structure: the label of every field
\* is a string.
LabelsAreTexts == \A i \in DOMAIN FieldsAsLoaded : FieldsAsLoaded[i].label # NoData

\* C21: no field analyze_form returns has the fallback marker "USE_MAPPER" as
\* its value; for every parseable LLM response of the required structure it
\* returns the fields of the response in their order, where each field whose
\* value is the marker carries map_field_value(label, ...) instead (possibly
\* the empty string) and every other field is unchanged.
C21_MarkerReplaced ==
    /\ \A i \in DOMAIN analyzed.fields : analyzed.fields[i].value # "USE_MAPPER"
    /\ (analyzed.done /\ analyzed.parsed /\ LabelsAreTexts) =>
        /\ Len(analyzed.fields) = Len(FieldsAsLoaded)
        /\ \A i \in DOMAIN analyzed.fields :
            /\ analyzed.fields[i].label = FieldsAsLoaded[i].label
            /\ IF FieldsAsLoaded[i].value = "USE_MAPPER"
               THEN analyzed.fields[i].value =
                        MapFieldValue(FieldsAsLoaded[i].label, resume_data)
               ELSE analyzed.fields[i] = FieldsAsLoaded[i]

\* A parsed response with a marker field that became the empty string and
\* a field with a value of its own.
C21_Witness ==
    /\ analyzed.done /\ analyzed.parsed
    /\ \E i, k \in DOMAIN analyzed.fields :
        /\ FieldsAsLoaded[i].value = "USE_MAPPER" /\ analyzed.fields[i].value = ""
        /\ FieldsAsLoaded[k].value = "x" /\ analyzed.fields[k].value = "x"

\* The first top-level object of a text by brace matching: from the first
\* "{" to the "}" that closes it.
FirstObject(text) ==
    LET opens == {i \in DOMAIN text : text[i] = "{"}
        ends == {j \in DOMAIN text :
                    /\ opens # {} /\ j > First(opens)
                    /\ Depth(SubSeq(text, First(opens), j), j - First(opens) + 1) = 0}
    IN  IF ends = {} THEN NoMatch ELSE SubSeq(text, First(opens), First(ends))

\* C22: after the code-fence markers are stripped, the text that is parsed
\* is the first top-level JSON object found by brace matching, whatever
\* follows its closing brace.
C22_FirstObjectParsed ==
    (analyzed.done /\ FirstObject(StripFences(llmText)) # NoMatch) =>
        analyzed.loaded = FirstObject(StripFences(llmText))

\* C23: a notification that is not delivered never crashes the pipeline:
\* send_email returns true or false and never raises, whether the
\* credentials are missing or the connection, the login or the sending
\* fails; the return value of fill_form_from_resume follows from the run
\* alone, and an opened browser is released once, delivered or not.
C23_DeliveryFailureHarmless ==
    /\ Len(delivered) = Len(reports)
    /\ \A i \in DOMAIN delivered : delivered[i] \in {"true", "false"}
    /\ (Terminated /\ exitPath = "finished") =>
            ret = (IF submission_success THEN "true" ELSE "false")
    /\ (Terminated /\ exitPath \notin {"finished", "driver_failed"}) => ret = "false"
    /\ (Terminated /\ exitPath = "driver_failed") => (ret = "raised" /\ reports = <<>>)
    /\ (Terminated /\ browser # "none") => (browser = "closed" /\ quits = 1)

\* A submitted application whose success e-mail could not be delivered: the
\* run returned True and released the browser.
C23_Witness ==
    /\ Terminated
    /\ delivered = <<"false">>
    /\ reports[1].success
    /\ ret = "true"
    /\ quits = 1

\* A control with type=hidden or without a layout parent.
Invisible(el) == el.type = "hidden" \/ ~el.rendered

\* C24: no control that has type=hidden or is not rendered appears as a field
\* in the extractor output, inside a form or standalone, and none appears
\* in the verification report.
C24_InvisibleControlsExcluded ==
    \A i \in DOMAIN controls :
        Invisible(controls[i]) =>
            /\ i \notin Range(form_data.forms) \cup Range(form_data.standalone)
            /\ i \notin Range(verification.filled) \cup Range(verification.empty)

\* A page with a hidden required control inside a form and a visible filled
\* one outside, both scripts run: only the visible one is listed.
C24_Witness ==
    /\ form_data.done /\ verification.done
    /\ \E i, j \in DOMAIN controls :
        /\ controls[i].type = "hidden" /\ controls[i].inForm
        /\ controls[i].state = "required"
        /\ ~Invisible(controls[j]) /\ ~controls[j].inForm
        /\ form_data.forms = <<>> /\ form_data.standalone = <<j>>
        /\ verification.filled = <<j>> /\ verification.empty = <<>>

\* The stage of the run a position of the controller belongs to: 0 before
\* the form is loaded, 1 Loaded, 2 Extracted, 3 Mapped, 4 Filled,
\* 5 Verified, 6 Submitted, 7 Done.
StageOf(p) ==
    CASE p = "extract" -> 1
      [] p = "analyze" -> 2
      [] p = "fill" -> 3
      [] p = "verify" -> 4
      [] p \in {"presubmit", "submit"} -> 5
      [] p \in {"detect", "errors", "reverify"} -> 6
      [] p \in {"notify", "handler", "finally", "done"} -> 7
      [] OTHER -> 0

\* fill_field has been called once for every mapped field, in list order.
AllFieldsFilled == fillCalls = [i \in 1..Len(fields) |-> i]

\* C25: the stages of a run occur only in the order Loaded, Extracted,
\* Mapped, Filled, Verified, Submitted, Done: a step never leads back to an
\* earlier stage except from the verification and gap-fill of the retry loop
\* to the next submit attempt; a field is filled only after the mapping
\* returned and before any verification or click; a submit click comes only
\* after fill_field was called for every mapped field and verify_fields has
\* run; extraction and mapping happen once; nothing happens after Done.
C25_StagesInOrder ==
    [][ /\ \/ StageOf(pc') >= StageOf(pc)
           \/ pc = "reverify" /\ pc' = "submit"
        /\ fillCalls' # fillCalls =>
              lastResponse # NoResponse /\ verifies = 0 /\ clicks = 0
        /\ clicks' # clicks =>
              AllFieldsFilled /\ fields # <<>> /\ verifies >= 1
        /\ (verifies' # verifies \/ gapFills' # gapFills) => AllFieldsFilled
        /\ extractions' # extractions =>
              extractions = 0 /\ lastResponse = NoResponse /\ fillCalls = <<>>
        /\ lastResponse' # lastResponse =>
              lastResponse = NoResponse /\ extractions = 1 /\ fillCalls = <<>>
        /\ StageOf(pc) = 7 =>
              UNCHANGED <<fillCalls, clicks, attempts, verifies, gapFills,
                          extractions, lastResponse>>
      ]_vars

\* A run through every stage, with a rejected attempt, a gap-fill in the
\* retry loop and a second attempt.
C25_Witness ==
    /\ Terminated
    /\ exitPath = "finished"
    /\ Len(fillCalls) = 2
    /\ clicks = 2
    /\ gapFills >= 1
    /\ rejected >= 1

\* The verify_fields calls up to the first submit attempt: line 1415, line
\* 1433, and line 1441 when the gap-fill filled something.
VerifiesBeforeFirstAttempt == 2 + (IF fields_filled > fillTrue THEN 1 ELSE 0)

\* C26: in the submission loop verification plus gap-fill runs before the
\* first submit click, not at the start of a later iteration, exactly once
\* after each attempt that was rejected with explicit errors while retries
\* remain, and not after the last permitted attempt: whenever an attempt is
\* about to start, verify_fields has run once per earlier attempt on top of
\* the calls before the first attempt, and a finished attempt adds none
\* unless another attempt follows.
C26_VerificationSchedule ==
    /\ clicks >= 1 => verifies >= 2
    /\ pc = "submit" =>
            /\ attempts = retry
            /\ verifies = VerifiesBeforeFirstAttempt + attempts
            /\ gapFills <= 1 + attempts
    /\ pc \in {"detect", "errors", "reverify"} =>
            verifies = VerifiesBeforeFirstAttempt + attempts - 1
    /\ (pc = "notify" /\ attempts >= 1) =>
            verifies = VerifiesBeforeFirstAttempt + attempts - 1
    /\ (pc = "reverify") => (rejected = attempts /\ attempts < max_submit_retries)

\* Every permitted attempt was made and rejected with errors: one
\* verification between the two attempts, none after the second.
C26_Witness ==
    /\ pc = "notify"
    /\ max_submit_retries = 2
    /\ attempts = 2
    /\ rejected = 2
    /\ verifies = VerifiesBeforeFirstAttempt + 1

\* C27: every fill_empty_fields call receives the empty-field list of a
\* verify_fields call made after the most recent fill, gap-fill or submit
\* click.
C27_ReportNeverStale == ~staleGapFill

\* Gap-fills before the first click and after a rejected attempt.
C27_Witness ==
    /\ gapFills = 2
    /\ clicks >= 1
    /\ rejected >= 1
    /\ ~staleGapFill

\* One of the five indicators occurs, without regard to case, in a text.
HasIndicator(text) == \E ind \in TextIndicators : Contains(ind, Lower(text))

\* C28 as stated: after a submit click the attempt is classified as success
\* whenever one of the indicators "thank you", "success", "submitted",
\* "received", "confirmation" occurs as a case-insensitive substring of the
\* page text or of the URL, before any error scanning.
C28_IndicatorInTextOrUrl ==
    (classified.done /\ readRaises = "none"
        /\ (HasIndicator(page_text) \/ HasIndicator(current_url)))
    => (classified.success /\ ~classified.scanned)

\* C28 as the code has it: the attempt is classified as success, without
\* error scanning and whatever error elements are visible, whenever the body
\* text can be read and holds one of the five indicators, or the body text
\* and the URL can be read and the URL holds "success", "confirmation" or
\* "thank", all without regard to case.
C28_SuccessBeforeErrors ==
    (classified.done
        /\ \/ readRaises # "body" /\ HasIndicator(page_text)
           \/ readRaises = "none"
              /\ \E w \in UrlWords : Contains(w, Lower(current_url)))
    => (classified.success /\ ~classified.scanned)

\* A page that shows a success indicator and visible errors.
C28_Witness ==
    /\ classified.done
    /\ errorsShown
    /\ HasIndicator(page_text)
    /\ classified.success
    /\ ~classified.scanned

\* The elements of a page the error selectors match, selector by selector.
Matched(p) == p[1] \o p[2] \o p[3]

\* The visible elements with a non-empty text among them.
VisibleErrors(p) == SelectSeq(Matched(p), LAMBDA e : e.displayed /\ e.len > 0)

\* C29: when errors are collected, every visible error/invalid/alert element
\* with a non-empty text contributes a message, a text longer than the
\* maximum length included (truncated, not dropped).
C29_EveryVisibleErrorCollected ==
    scan.done =>
        /\ Len(scan.errors) = Len(VisibleErrors(errorPage))
        /\ \A i \in DOMAIN scan.errors : scan.errors[i] = VisibleErrors(errorPage)[i].text

\* The latest fill_field call came to the dispatch: the upload value was
\* resolved and the element was found.
DispatchReached ==
    /\ lastCall = "fill_field"
    /\ element # NoElement
    /\ ~ResolveUpload(action, field_type, fvalue, label, resume_path,
                      cover_letter_path).raised

\* The class of the element by the attributes of the live element and the
\* mapped action, in the order file upload, dropdown-like, checkbox, radio,
\* textarea, text input, fallback.
ClassOf(el, act) ==
    IF el.type = "file" \/ act = "upload" THEN "upload"
    ELSE IF el.tag = "select" \/ el.hint # "none" \/ act = "select" THEN "dropdown"
    ELSE IF el.type = "checkbox" THEN "checkbox"
    ELSE IF el.type = "radio" THEN "radio"
    ELSE IF el.tag = "textarea" THEN "textarea"
    ELSE IF el.tag = "input" \/ el.type = "text" THEN "text"
    ELSE "fallback"

\* C30: fill_field runs exactly one handler for every combination of the
\* element's attributes and the mapped action, the handler of the first
\* matching class in the order file upload, dropdown-like, checkbox, radio,
\* textarea, text input, fallback; an element of type file or a field with
\* action upload is handled as upload; the typing handlers, the fallback
\* included, send a non-empty value when they succeed.
C30_OneHandlerInOrder ==
    DispatchReached =>
        /\ ran = {ClassOf(element, action)}
        /\ (element.type = "file" \/ action = "upload") => ran = {"upload"}
        /\ (ran \subseteq {"textarea", "text", "fallback"} /\ fret) =>
                (sent # {} /\ \A v \in sent : ~EmptyValue(v))

\* The fallback ran on an element of no other class with an empty value and
\* sent its default text.
C30_Witness ==
    /\ DispatchReached
    /\ ran = {"fallback"}
    /\ fvalue = ""
    /\ fret
    /\ sent = {Raw("Test")}

\* ---- C31
\* The first displayed element among the matches of a selector, if any.
FirstVisible(found) ==
    IF \E i \in DOMAIN found : found[i] = "visible"
    THEN First({i \in DOMAIN found : found[i] = "visible"})
    ELSE 0

\* The element the call is to click: the mapped button when it resolves,
\* otherwise the first visible button, else the first visible input.
SubmitTarget(info, pg) ==
    IF info = "selector" /\ pg.mapped = "clicked" THEN {<<"mapped", 1>>}
    ELSE IF FirstVisible(pg.buttons) # 0 THEN {<<"button", FirstVisible(pg.buttons)>>}
    ELSE IF FirstVisible(pg.inputs) # 0 THEN {<<"input", FirstVisible(pg.inputs)>>}
    ELSE {}

\* C31: attempt_submit performs at most one click per call and returns true
\* exactly when it clicked; it clicks the mapped submit button when that
\* resolves, otherwise the first visible button[type=submit], else the first
\* visible input[type=submit], and returns false without a click when there
\* is none.  Stated for a submit button of the analysis that is a dict or
\* empty.
C31_ClicksFirstVisibleSubmit ==
    (submitted.done /\ submit_info # "nondict") =>
        /\ Cardinality(submitted.clicked) <= 1
        /\ submitted.result = "true" <=> submitted.clicked # {}
        /\ submitted.clicked = SubmitTarget(submit_info, submitPage)
        /\ submitted.clicked = {} => submitted.result = "false"

\* ---- C32
\* The sentence of line 959.
InterestStatement == Raw("I am interested in this position")

\* The latest fill_field call met a textarea with no resolved value.
BlankTextarea == DispatchReached /\ element.tag = "textarea" /\ EmptyValue(uploadValue)

\* C32 as stated: for every field that resolves to a textarea and has no
\* resolved value, fill_field types the interest statement and returns true.
C32_TextareaNeverBlank ==
    BlankTextarea => (fret /\ sent = {InterestStatement})

\* C32 amended: when the textarea is not dropdown-like and the action of the
\* field is neither "upload" nor "select", fill_field types the interest
\* statement and returns true unless a driver call raises; it returns true
\* only when it typed the statement, and it types nothing else.
C32_TextareaHandlerTypesStatement ==
    (BlankTextarea /\ ~TakesUploadBranch(element, action) /\ ~IsDropdown(element, action)) =>
        /\ sent \in {{}, {InterestStatement}}
        /\ fret <=> sent = {InterestStatement}

C32_Witness ==
    /\ BlankTextarea
    /\ action = "type"
    /\ fret
    /\ sent = {InterestStatement}

\* ---- C33
\* The text is the decimal form of one of 1..10.
SmallInteger(text) == \E n \in 1..10 : text = Str(n)

C34_ReturnsAtTop == loadPc = "done" => scrollPos = "top"

\* C34 amended: smart_load_form performs at most 3 page-bottom scrolls and
\* always terminates; when it returns after scrolling the page is back at
\* the top, and when it returns without a scroll it has left the scroll
\* position as it found it.
C34_BoundedScrollsRestored ==
    /\ [](scrolls <= 3)
    /\ [](loadPc = "done" => IF scrolls > 0 THEN scrollPos = "top" ELSE scrollPos = startPos)
    /\ <>(loadPc \in {"done", "raised"})

C34_Witness ==
    /\ loadPc = "done"
    /\ scrolls = 3
    /\ scrollPos = "top"
    /\ startPos = "elsewhere"

\* ---- C35
\* The count of the latest scan equals the count of the scan before.
Stabilized == Len(seen) >= 2 /\ seen[Len(seen)] = seen[Len(seen) - 1]

\* C35: the loop stops scrolling as soon as the number of visible fields is
\* unchanged between two successive scans, and otherwise goes on until the
\* budget of 3 scrolls is used.
C35_StopsWhenStable ==
    /\ (loadPc = "loop" /\ scrolls > 0) => ~Stabilized
    /\ (loadPc \in {"restore", "done"} /\ scrolls > 0) => (Stabilized \/ scrolls = 3)

\* ---- C36
\* The positions a sequence of positions holds.
Listed(s) == {s[k] : k \in DOMAIN s}

\* C36: extraction reports every visible control exactly once, a control
\* inside a form only among the form fields and a control outside every
\* form only among the standalone fields, and the text for the LLM has
\* exactly one line per extracted field, in extraction order.
C36_OneLinePerField ==
    form_data.done =>
        /\ Listed(form_data.forms) \cap Listed(form_data.standalone) = {}
        /\ Cardinality(Listed(form_data.forms)) = Len(form_data.forms)
        /\ Cardinality(Listed(form_data.standalone)) = Len(form_data.standalone)
        /\ \A i \in DOMAIN controls :
              /\ i \in Listed(form_data.forms)
                    <=> (~Invisible(controls[i]) /\ controls[i].inForm)
              /\ i \in Listed(form_data.standalone)
                    <=> (~Invisible(controls[i]) /\ ~controls[i].inForm)
        /\ Len(form_text) = Len(form_data.forms) + Len(form_data.standalone)
        /\ \A k \in DOMAIN form_text :
              form_text[k][1] = (form_data.forms \o form_data.standalone)[k]

\* ---- C37
\* C37: in every report of a run the fields-filled counter is at least 0 and
\* at most the number of mapped fields, also after gap-filling added to it.
C37_FilledWithinTotal ==
    \A i \in DOMAIN reports :
        /\ 0 <= reports[i].fieldsFilled
        /\ reports[i].fieldsFilled <= reports[i].totalFields

\* ---- C38
\* The run reports success: the flag, the return value or a success report.
SuccessReported ==
    \/ submission_success
    \/ ret = "true"
    \/ \E i \in DOMAIN reports : reports[i].success

\* C38: success is reported only after a submission happened: at least one
\* attempt_submit call returned true, the latest call did, and the error
\* collection that followed it, if there was one, collected nothing.
C38_SuccessOnlyAfterSubmission ==
    SuccessReported =>
        /\ submission_success
        /\ attempts >= 1 /\ clicks >= 1
        /\ lastSubmit = "true"
        /\ checks \in {attempts - 1, attempts}
        /\ checks = attempts => lastSeen = <<>>

\* A second attempt was submitted after a rejected first one, its error
\* collection found nothing, and the run returned true.
C38_Witness ==
    /\ Terminated
    /\ ret = "true"
    /\ attempts = 2
    /\ checks = 2
    /\ rejected = 1
    /\ lastSeen = <<>>

\* ---- C39
\* C39: with actually_submit = false the run never calls attempt_submit,
\* fill_empty_fields, detect_success or check_errors and clicks no submit
\* control; a run that comes past the fill loop has filled every mapped
\* field once and verified once; the function returns false and every
\* report is a failure report.
C39_DryRunSubmitsNothing ==
    ~actually_submit =>
        /\ pc \notin {"presubmit", "submit", "detect", "errors", "reverify"}
        /\ attempts = 0 /\ clicks = 0 /\ gapFills = 0 /\ checks = 0
        /\ verifies <= 1
        /\ ~submission_success
        /\ ret # "true"
        /\ \A i \in DOMAIN reports : ~reports[i].success
        /\ (Terminated /\ exitPath # "driver_failed") => ret = "false"
        /\ LoopFinished =>
              /\ fillCalls = [i \in 1..Len(fields) |-> i]
              /\ verifies = 1
              /\ OneFailureReport

C39_Witness ==
    /\ ~actually_submit
    /\ LoopFinished
    /\ max_submit_retries > 0
    /\ send_email
    /\ Len(fields) = 2
    /\ fields_filled = 2
    /\ ret = "false"

\* ---- C40
\* The resume is missing, or parse_resume returned no profile or raised.
NoProfile == ~resume_exists \/ parsed \in {"empty", "raised"}

\* C40: when the resume path is missing or does not exist, or the resume is
\* not parsed into a non-empty profile, the function returns false before a
\* browser is acquired: get_driver is not called, no page is loaded and no
\* field is filled.
C40_NoBrowserWithoutProfile ==
    NoProfile =>
        /\ pc \in {"start", "parse", "done"}
        /\ browser = "none" /\ quits = 0 /\ ~opsAfterQuit
        /\ exitPath \in {"none", "resume_missing", "resume_unparsed"}
        /\ extractions = 0 /\ fillCalls = <<>> /\ fields_filled = 0
        /\ verifies = 0 /\ attempts = 0 /\ clicks = 0
        /\ Terminated => ret = "false"

\* An existing resume that parse_resume could not turn into a profile ended
\* the run with false and a failure report.
C40_Witness ==
    /\ Terminated
    /\ resume_exists
    /\ parsed = "empty"
    /\ ret = "false"
    /\ send_email /\ Len(reports) = 1
====
